---- MODULE Spec2Model ----
(***************************************************************************)
(* Food-bank analysis scripts: the statewide aggregator (load_data /       *)
(* plot_statewide_trend) and the forecasting routine (run_models in        *)
(* prediction.py, run_predictions in google_colab_script.py).              *)
(*                                                                         *)
(* Dates are month numbers counted from January 2019 (0 = 2019-01-01),     *)
(* every date being the first day of a month as the '%b-%y' parse yields.  *)
(* Numbers are exact rationals <<numerator, denominator>> in lowest terms; *)
(* NaN is <<0, 0>> and +infinity is <<1, 0>>.                              *)
(***************************************************************************)
EXTENDS Integers, Sequences, FiniteSets, TLC

\* ------------------------------------------------------------------ bounds
MaxObs == 3     \* rows of the statewide frame handed to the forecaster
MaxDate == 24   \* latest month number of an input row
DateStep == 6   \* input rows fall on every DateStep-th month
MaxVal == 2     \* largest household count of an input row
MaxRows == 3    \* rows of the cleaned table handed to the aggregator
MaxAggDate == 1 \* latest month number of a row of that table
MaxAggVal == 1  \* largest household count of a row of that table

\* ------------------------------------------------------- program constants
BreakDate == 2          \* pd.to_datetime('2019-03-01')
TestMonths == 6         \* train_test_split_ts(model_df, test_months=6)
SeasonLag == 12         \* pd.DateOffset(months=12)
ForecastSteps == 3      \* final_model.forecast(3)

Dates == {d \in 0..MaxDate : d % DateStep = 0}
Vals == 0..MaxVal
Scripts == {"prediction", "colab"}

\* ---------------------------------------------------------------- numbers
Abs(x) == IF x < 0 THEN -x ELSE x

RECURSIVE Gcd(_, _)
Gcd(a, b) == IF b = 0 THEN a ELSE Gcd(b, a % b)

\* the rational n/d (d # 0) in lowest terms with a positive denominator
Rat(n, d) ==
    LET g == Gcd(Abs(n), Abs(d))
        s == IF d < 0 THEN -1 ELSE 1
    IN  <<(s * n) \div g, (s * d) \div g>>

NaN == <<0, 0>>
Inf == <<1, 0>>
IsNum(x) == x[2] # 0
RInt(n) == <<n, 1>>
RAdd(x, y) == Rat(x[1] * y[2] + y[1] * x[2], x[2] * y[2])
RSub(x, y) == Rat(x[1] * y[2] - y[1] * x[2], x[2] * y[2])
RMul(x, y) == Rat(x[1] * y[1], x[2] * y[2])
RAbs(x) == <<Abs(x[1]), x[2]>>
RGt(x, y) == x[1] * y[2] > y[1] * x[2]

\* the division with a guard that turns x/0 into 0
FDiv_ZeroGuard(x, y) ==
    IF y[1] = 0 THEN RInt(0)
    ELSE Rat(x[1] * y[2], x[2] * y[1])

\* IEEE division as numpy performs it on non-negative numerators:
\* x/0 is inf for x > 0 and NaN for x = 0
FDiv(x, y) ==
    IF y[1] = 0 THEN (IF x[1] = 0 THEN NaN ELSE Inf)
    ELSE Rat(x[1] * y[2], x[2] * y[1])

\* IEEE multiplication by a positive finite factor k
FScale(k, x) == IF IsNum(x) THEN RMul(k, x) ELSE x

\* what np.mean of non-negative floats is: NaN if a term is NaN (or there is no
\* term), else inf if a term is inf, else a finite number
MeanClass(s) ==
    IF s = <<>> \/ \E i \in DOMAIN s : s[i] = NaN THEN "nan"
    ELSE IF \E i \in DOMAIN s : s[i] = Inf THEN "inf"
    ELSE "finite"

\* a > b on floats: any comparison with NaN is False
FGt(x, y) == IsNum(x) /\ IsNum(y) /\ RGt(x, y)

RECURSIVE SumSeq(_)
SumSeq(s) == IF s = <<>> THEN RInt(0) ELSE RAdd(Head(s), SumSeq(Tail(s)))

\* Series.mean(): NaN for an empty selection
Mean(s) == IF s = <<>> THEN NaN ELSE RMul(SumSeq(s), Rat(1, Len(s)))

\* ------------------------------------------------------ sequences, slices
\* Python's s[i:j] with i, j already clamped into 0..len (0-based, j exclusive)
Slice(s, i, j) == IF i >= j THEN <<>> ELSE SubSeq(s, i + 1, j)

\* Python's normalisation of one slice bound: negative counts from the end,
\* then clamp into 0..n
SliceBound(k, n) ==
    LET m == IF k < 0 THEN k + n ELSE k
    IN  IF m < 0 THEN 0 ELSE IF m > n THEN n ELSE m

\* df.iloc[:stop]
IlocUpTo(s, stop) == Slice(s, 0, SliceBound(stop, Len(s)))
\* df.iloc[start:]
IlocFrom(s, start) == Slice(s, SliceBound(start, Len(s)), Len(s))

Last(s) == s[Len(s)]

Range(s) == {s[i] : i \in DOMAIN s}

\* ------------------------------------------------------------------ state
VARIABLES
    script,          \* which script runs: "prediction" or "colab"
    pc,              \* position of main / run_models / run_predictions
    rows,            \* cleaned table (df_clean) handed to the aggregator
    df,              \* statewide frame: rows [Date, HH] sorted by Date
    stages,          \* pipeline stages entered so far, in order of first entry
    model_rows,      \* model_df as a frame, after the structural-break check
    model_df,        \* model_df as a monthly series of [Date, v]
    train,           \* history
    test,            \* holdout
    y_pred_naive,    \* Naive prediction
    y_pred_snaive,   \* Seasonal Naive prediction
    snaive_src,      \* per holdout date, the index date the prediction was read at
    hw,              \* Holt-Winters fit: "none", "ok", "failed"
    sarima,          \* SARIMA fit on history: "none", "ok", "failed"
    final,           \* SARIMA refit on the full series: "none", "ok", "failed"
    final_input,     \* the series final_model was fitted on
    future_forecast, \* index dates of final_model.forecast(3)
    results,         \* the comparison table
    printed,         \* console messages, in order
    raised,          \* the step an unhandled exception left main at, or "none"
    returned,        \* what run_models / run_predictions returned, or "none"
    loader,          \* which loading function runs
    columns,         \* column names of the file read
    raw,             \* rows of the file as read: text cells
    missing_cols,    \* the loader's list of required columns not in the file
    df_clean,        \* the loader's cleaned rows
    cell,            \* one text cell of a numeric column
    cleaned,         \* the number the loader makes of that cell
    households,      \* the 'CalFresh Households' column of the statewide frame
    fill_method,     \* what pct_change's default fill_method is: "pad" or "None"
    mom_change,      \* the MoM_Change column
    mom_zscore,      \* the MoM_Zscore column
    spikes,          \* row positions of the spikes frame
    images,          \* image files written
    df_ts,           \* analyze_seasonality's monthly series
    decomp,          \* seasonal_decompose: "none", "ok", "failed"
    unemployment,    \* the 'Unemployment Monthly' column of the statewide frame
    lag_corr,        \* analyze_correlation's lagged coefficients, as printed
    files,           \* the input files that exist
    invoked,         \* the analysis functions main has called, in order
    exit_code,       \* the process's exit status, or "running"
    cc_df,           \* analyze_neighborhood_gaps: the Contra Costa tract rows
    worst_15,        \* the 15 rows of lowest estimate
    recommendations, \* the diagnosis loop's list
    categories,      \* the 'Category' column of cc_df
    tract_id_raw,    \* str(row['geotypevalue']) of one row
    tract_name,      \* the display name made of it
    lines,           \* the lines of a SNAP file: does the line hold the marker
    header_row,      \* the header row the scan found, -1 for none
    procs,           \* two runs side by side: each run's script and position
    disk             \* the shared output directory: file name -> runs whose bytes it holds

vars == <<script, pc, rows, df, stages, model_rows, model_df, train, test,
          y_pred_naive, y_pred_snaive, snaive_src, hw, sarima, final,
          final_input, future_forecast, results, printed, raised, returned,
          loader, columns, raw, missing_cols, df_clean, cell, cleaned,
          households, fill_method, mom_change, mom_zscore, spikes, images,
          df_ts, decomp, unemployment, lag_corr, files, invoked, exit_code,
          cc_df, worst_15, recommendations, categories, tract_id_raw,
          tract_name, lines, header_row,
          procs, disk>>

loaderVars == <<loader, columns, raw, missing_cols, df_clean>>
cleanVars == <<cell, cleaned>>
spikeVars == <<households, fill_method, mom_change, mom_zscore, spikes, images>>
seasonVars == <<df_ts, decomp>>
corrVars == <<unemployment, lag_corr>>
mainVars == <<files, invoked, exit_code>>
gapsVars == <<cc_df, worst_15, recommendations, categories, tract_id_raw,
              tract_name>>
headerVars == <<lines, header_row>>
pairVars == <<procs, disk>>
restVars == <<gapsVars, headerVars, pairVars>>
otherVars == <<seasonVars, corrVars, mainVars, restVars>>
extVars == <<loaderVars, cleanVars, spikeVars, otherVars>>

\* the loaders' state while another part of the program is examined
LoaderIdle ==
    /\ loader = "none"
    /\ columns = {}
    /\ raw = <<>>
    /\ missing_cols = <<>>
    /\ df_clean = <<>>

CleanIdle ==
    /\ cell = <<>>
    /\ cleaned = NaN

SpikesIdle ==
    /\ households = <<>>
    /\ fill_method = "unset"
    /\ mom_change = <<>>
    /\ mom_zscore = <<>>
    /\ spikes = {}
    /\ images = {}

SeasonIdle ==
    /\ df_ts = <<>>
    /\ decomp = "none"

CorrIdle ==
    /\ unemployment = <<>>
    /\ lag_corr = <<>>

MainIdle ==
    /\ files = {}
    /\ invoked = <<>>
    /\ exit_code = "running"

GapsIdle ==
    /\ cc_df = <<>>
    /\ worst_15 = <<>>
    /\ recommendations = <<>>
    /\ categories = <<>>
    /\ tract_id_raw = <<>>
    /\ tract_name = <<>>

HeaderIdle ==
    /\ lines = <<>>
    /\ header_row = -1

PairIdle ==
    /\ procs = <<>>
    /\ disk = <<>>

RestIdle == GapsIdle /\ HeaderIdle /\ PairIdle

OtherIdle == SeasonIdle /\ CorrIdle /\ MainIdle /\ RestIdle

ExtIdle == LoaderIdle /\ CleanIdle /\ SpikesIdle /\ OtherIdle

\* ------------------------------------------------- forecaster: operators
Households(frame) == [i \in DOMAIN frame |-> RInt(frame[i].HH)]
SeriesValues(series) == [i \in DOMAIN series |-> series[i].v]
IndexOf(series) == {series[i].Date : i \in DOMAIN series}

BeforeBreak(r) == r.Date < BreakDate
FromBreak(r) == r.Date >= BreakDate

\* df[df['Date'] < break_date]['CalFresh Households'].mean()
PreBreak(frame) == Mean(Households(SelectSeq(frame, BeforeBreak)))
\* df[df['Date'] >= break_date]['CalFresh Households'].mean()
PostBreak(frame) == Mean(Households(SelectSeq(frame, FromBreak)))

\* the level-shift test with >= in place of >
LevelShift_NonStrict(frame) ==
    LET post == PostBreak(frame)
        lim  == FScale(Rat(3, 2), PreBreak(frame))
    IN  IsNum(post) /\ IsNum(lim) /\ ~RGt(lim, post)

\* if post_break > 1.5 * pre_break
LevelShift(frame) == FGt(PostBreak(frame), FScale(Rat(3, 2), PreBreak(frame)))

\* model_df = df[df['Date'] >= break_date].copy()  /  df.copy()
BreakFilter(frame) ==
    IF LevelShift(frame) THEN SelectSeq(frame, FromBreak) ELSE frame

HasDuplicateDates(frame) ==
    \E i, j \in DOMAIN frame : i # j /\ frame[i].Date = frame[j].Date

MinDate(frame) == CHOOSE d \in IndexOf(frame) : \A e \in IndexOf(frame) : d <= e
MaxDateOf(frame) == CHOOSE d \in IndexOf(frame) : \A e \in IndexOf(frame) : d >= e

ValueAt(frame, d) ==
    RInt((CHOOSE r \in Range(frame) : r.Date = d).HH)

\* Series.interpolate() (linear) at a month the frame has no row for: on the
\* straight line between the nearest rows before and after that month
Interpolated(frame, d) ==
    LET a  == CHOOSE x \in IndexOf(frame) :
                  x < d /\ \A y \in IndexOf(frame) : y < d => y <= x
        b  == CHOOSE x \in IndexOf(frame) :
                  x > d /\ \A y \in IndexOf(frame) : y > d => y >= x
        va == ValueAt(frame, a)
        vb == ValueAt(frame, b)
    IN  RAdd(va, RMul(RSub(vb, va), Rat(d - a, b - a)))

\* the series left as the frame's rows, missing months not filled in
AsfreqInterpolate_NoFill(frame) ==
    [i \in DOMAIN frame |-> [Date |-> frame[i].Date, v |-> RInt(frame[i].HH)]]

\* model_df.set_index('Date')['CalFresh Households'].asfreq('MS').interpolate()
\* for a frame without duplicate dates: one observation per month from the
\* first to the last date of the frame
AsfreqInterpolate(frame) ==
    IF frame = <<>> THEN <<>>
    ELSE LET lo == MinDate(frame)
             hi == MaxDateOf(frame)
         IN  [i \in 1..(hi - lo + 1) |->
                 LET d == lo + i - 1
                 IN  [Date |-> d,
                      v |-> IF d \in IndexOf(frame) THEN ValueAt(frame, d)
                            ELSE Interpolated(frame, d)]]

\* the split with the holdout starting one observation early
TrainTestSplit_Overlap(series, test_months) ==
    [train |-> IlocUpTo(series, -test_months),
     test  |-> IlocFrom(series, -(test_months + 1))]

\* train_test_split_ts(df, test_months)
TrainTestSplit(series, test_months) ==
    [train |-> IlocUpTo(series, -test_months),
     test  |-> IlocFrom(series, -test_months)]

\* the naive prediction reading the first history value instead of the last
NaivePrediction_First(history, holdout) ==
    [i \in 1..Len(holdout) |-> Head(history).v]

\* y_pred_naive = [train.iloc[-1]] * len(test)
NaivePrediction(history, holdout) ==
    [i \in 1..Len(holdout) |-> Last(history).v]

\* the seasonal-naive lookup one month short of a year
SeasonalNaiveSource_Lag11(history, date) ==
    LET month_ago_11 == date - (SeasonLag - 1)
    IN  IF month_ago_11 \in IndexOf(history) THEN month_ago_11
        ELSE Last(history).Date

\* the index date the seasonal-naive loop reads for holdout date `date`
SeasonalNaiveSource(history, date) ==
    LET month_ago_12 == date - SeasonLag
    IN  IF month_ago_12 \in IndexOf(history) THEN month_ago_12
        ELSE Last(history).Date

\* train.loc[d]
Loc(series, d) == (CHOOSE o \in Range(series) : o.Date = d).v

\* mean_absolute_error / mean_squared_error / MAPE of evaluate_model. RMSE is
\* kept as the mean squared error it is the square root of; MAPE as the
\* per-period ratios |(true - pred) / true| it is 100 times the mean of, with
\* the IEEE class of that mean
EvaluateModel(y_true, y_pred, model_name) ==
    LET n    == Len(y_true)
        err  == [i \in 1..n |-> RSub(y_true[i], y_pred[i])]
        abse == [i \in 1..n |-> RAbs(err[i])]
        sqe  == [i \in 1..n |-> RMul(err[i], err[i])]
        pct  == [i \in 1..n |-> FDiv(abse[i], y_true[i])]
    IN  [Model |-> model_name,
         MAE   |-> Mean(abse),
         RMSE  |-> [sqrt_of |-> Mean(sqe)],
         MAPE  |-> [hundred_times_mean_of |-> pct, ieee |-> MeanClass(pct)]]

\* index of final_model.forecast(3): the months after the last observation
FutureIndex(series) == [i \in 1..ForecastSteps |-> Last(series).Date + i]

\* a forecast of the fitted (black-box) model: one value per holdout period
PredVals == {RInt(0), RInt(MaxVal)}
Forecast(p, holdout) == [i \in 1..Len(holdout) |-> p]

\* the stages of the forecaster, in the order the specification lists them
AllStages == <<"STRUCTURAL-BREAK CHECK", "TRAIN/TEST SPLIT", "MODEL FITTING",
               "SCORING", "FINAL REFIT", "FUTURE FORECAST">>

Enter(done, stage) == IF stage \in Range(done) THEN done ELSE Append(done, stage)

NoReturn == [kind |-> "none", table |-> <<>>]

\* ------------------------------------------------------ forecaster: input
FrameRows == [Date : Dates, HH : Vals]

\* frames as load_data / plot_statewide_trend return them: sorted by Date
InputFrames ==
    {f \in UNION {[1..k -> FrameRows] : k \in 0..MaxObs} :
        \A i, j \in DOMAIN f : i < j => f[i].Date <= f[j].Date}

Init ==
    /\ script \in Scripts
    /\ df \in InputFrames
    /\ pc = "break"
    /\ rows = <<>>
    /\ stages = <<>>
    /\ model_rows = <<>>
    /\ model_df = <<>>
    /\ train = <<>>
    /\ test = <<>>
    /\ y_pred_naive = <<>>
    /\ y_pred_snaive = <<>>
    /\ snaive_src = <<>>
    /\ hw = "none"
    /\ sarima = "none"
    /\ final = "none"
    /\ final_input = <<>>
    /\ future_forecast = <<>>
    /\ results = <<>>
    /\ printed = <<>>
    /\ raised = "none"
    /\ returned = NoReturn
    /\ ExtIdle

inputVars == <<script, rows, df, extVars>>
seriesVars == <<model_rows, model_df, train, test>>
baselineVars == <<y_pred_naive, y_pred_snaive, snaive_src>>
finalVars == <<final, final_input, future_forecast>>

\* ---------------------------------------------------- forecaster: actions
\* an exception nobody catches leaves run_models and main
Raise(step) ==
    /\ raised' = step
    /\ pc' = "raised"

StructuralBreakCheck ==
    /\ pc = "break"
    /\ model_rows' = BreakFilter(df)
    /\ stages' = Enter(stages, "STRUCTURAL-BREAK CHECK")
    /\ printed' = IF LevelShift(df) THEN Append(printed, "Detected major level shift")
                  ELSE printed
    /\ pc' = "asfreq"
    /\ UNCHANGED <<inputVars, model_df, train, test, baselineVars, hw, sarima,
                   finalVars, results, raised, returned>>

\* set_index('Date') ... asfreq('MS').interpolate(); reindexing raises
\* ValueError on an index with duplicate dates
SetIndexAsfreq ==
    /\ pc = "asfreq"
    /\ IF HasDuplicateDates(model_rows)
       THEN /\ Raise("asfreq")
            /\ UNCHANGED model_df
       ELSE /\ model_df' = AsfreqInterpolate(model_rows)
            /\ pc' = "split"
            /\ UNCHANGED raised
    /\ UNCHANGED <<inputVars, stages, model_rows, train, test, baselineVars, hw,
                   sarima, finalVars, results, printed, returned>>

\* train, test = train_test_split_ts(model_df, test_months=6); prediction.py then
\* prints the two ranges: for an empty part min() and max() of the index are
\* NaT, NaT.date() is NaT again, and "NaT" is printed without a failure
Split ==
    /\ pc = "split"
    /\ LET parts == TrainTestSplit(model_df, TestMonths)
       IN  /\ train' = parts.train
           /\ test' = parts.test
    /\ pc' = "naive"
    /\ stages' = Enter(stages, "TRAIN/TEST SPLIT")
    /\ UNCHANGED <<inputVars, model_rows, model_df, baselineVars, hw, sarima,
                   finalVars, results, printed, raised, returned>>

\* MODEL 1: train.iloc[-1] raises IndexError on an empty history
Naive ==
    /\ pc = "naive"
    /\ IF train = <<>>
       THEN /\ Raise("naive")
            /\ stages' = Enter(stages, "MODEL FITTING")
            /\ UNCHANGED <<y_pred_naive, results>>
       ELSE /\ y_pred_naive' = NaivePrediction(train, test)
            /\ results' = Append(results,
                   EvaluateModel(SeriesValues(test), y_pred_naive', "Naive (Last Value)"))
            /\ stages' = Enter(Enter(stages, "MODEL FITTING"), "SCORING")
            /\ pc' = "snaive"
            /\ UNCHANGED raised
    /\ UNCHANGED <<inputVars, seriesVars, y_pred_snaive, snaive_src, hw, sarima,
                   finalVars, printed, returned>>

\* MODEL 2
SeasonalNaive ==
    /\ pc = "snaive"
    /\ snaive_src' = [i \in DOMAIN test |-> SeasonalNaiveSource(train, test[i].Date)]
    /\ y_pred_snaive' = [i \in DOMAIN test |-> Loc(train, snaive_src'[i])]
    /\ results' = Append(results,
           EvaluateModel(SeriesValues(test), y_pred_snaive', "Seasonal Naive"))
    /\ pc' = "hw"
    /\ UNCHANGED <<inputVars, stages, seriesVars, y_pred_naive, hw, sarima,
                   finalVars, printed, raised, returned>>

\* MODEL 3 without its try/except: a failed fit leaves run_models
HoltWinters_NoCatch ==
    /\ pc = "hw"
    /\ \/ /\ hw' = "failed"
          /\ Raise("hw")
          /\ UNCHANGED <<results, printed>>
       \/ \E p \in PredVals :
          /\ hw' = "ok"
          /\ results' = Append(results,
                 EvaluateModel(SeriesValues(test), Forecast(p, test), "Holt-Winters"))
          /\ pc' = "sarima"
          /\ UNCHANGED <<printed, raised>>
    /\ UNCHANGED <<inputVars, stages, seriesVars, baselineVars, sarima, finalVars,
                   returned>>

\* MODEL 3: try: fit, forecast, evaluate, append / except Exception: print
HoltWinters ==
    /\ pc = "hw"
    /\ \/ /\ hw' = "failed"
          /\ printed' = Append(printed, "HW Model failed")
          /\ UNCHANGED results
       \/ \E p \in PredVals :
          /\ hw' = "ok"
          /\ results' = Append(results,
                 EvaluateModel(SeriesValues(test), Forecast(p, test), "Holt-Winters"))
          /\ UNCHANGED printed
    /\ pc' = "sarima"
    /\ UNCHANGED <<inputVars, stages, seriesVars, baselineVars, sarima, finalVars,
                   raised, returned>>

\* MODEL 4 with the failed model still entered in the table
Sarima_AppendsOnFailure ==
    /\ pc = "sarima"
    /\ \/ /\ sarima' = "failed"
          /\ printed' = Append(printed, "SARIMA failed")
          /\ results' = Append(results,
                 [Model |-> "SARIMA", MAE |-> NaN, RMSE |-> [sqrt_of |-> NaN],
                  MAPE |-> [hundred_times_mean_of |-> <<>>, ieee |-> "nan"]])
       \/ \E p \in PredVals :
          /\ sarima' = "ok"
          /\ results' = Append(results,
                 EvaluateModel(SeriesValues(test), Forecast(p, test), "SARIMA"))
          /\ UNCHANGED printed
    /\ pc' = "plot"
    /\ UNCHANGED <<inputVars, stages, seriesVars, baselineVars, hw, finalVars,
                   raised, returned>>

\* MODEL 4: try: fit, forecast, evaluate, append / except Exception: print
Sarima ==
    /\ pc = "sarima"
    /\ \/ /\ sarima' = "failed"
          /\ printed' = Append(printed, "SARIMA failed")
          /\ UNCHANGED results
       \/ \E p \in PredVals :
          /\ sarima' = "ok"
          /\ results' = Append(results,
                 EvaluateModel(SeriesValues(test), Forecast(p, test), "SARIMA"))
          /\ UNCHANGED printed
    /\ pc' = "plot"
    /\ UNCHANGED <<inputVars, stages, seriesVars, baselineVars, hw, finalVars,
                   raised, returned>>

\* the plot step of prediction.py going straight to the return
PlotComparison_SkipsFinal ==
    /\ pc = "plot"
    /\ printed' = IF script = "prediction" THEN Append(printed, "Saved forecast plot")
                  ELSE printed
    /\ pc' = "return"
    /\ UNCHANGED <<inputVars, stages, seriesVars, baselineVars, hw, sarima,
                   finalVars, results, raised, returned>>

\* PLOT COMPARISON: savefig in prediction.py, plt.show() in the Colab script,
\* whose run_predictions ends here
PlotComparison ==
    /\ pc = "plot"
    /\ IF script = "prediction"
       THEN /\ printed' = Append(printed, "Saved forecast plot")
            /\ pc' = "final"
       ELSE /\ pc' = "return"
            /\ UNCHANGED printed
    /\ UNCHANGED <<inputVars, stages, seriesVars, baselineVars, hw, sarima,
                   finalVars, results, raised, returned>>

\* the final model refitted on the history alone
FutureForecast_OnHistory ==
    /\ pc = "final"
    /\ \/ /\ final' = "failed"
          /\ Raise("final")
          /\ stages' = Enter(stages, "FINAL REFIT")
          /\ UNCHANGED <<final_input, future_forecast, printed>>
       \/ /\ final' = "ok"
          /\ final_input' = train
          /\ future_forecast' = FutureIndex(train)
          /\ stages' = Enter(Enter(stages, "FINAL REFIT"), "FUTURE FORECAST")
          /\ printed' = Append(printed, "Future Forecast (Next 3 Months)")
          /\ pc' = "return"
          /\ UNCHANGED raised
    /\ UNCHANGED <<inputVars, seriesVars, baselineVars, hw, sarima, results,
                   returned>>

\* FUTURE FORECAST: SARIMAX(model_df, ...).fit(disp=False) outside any try
FutureForecast ==
    /\ pc = "final"
    /\ \/ /\ final' = "failed"
          /\ Raise("final")
          /\ stages' = Enter(stages, "FINAL REFIT")
          /\ UNCHANGED <<final_input, future_forecast, printed>>
       \/ /\ final' = "ok"
          /\ final_input' = model_df
          /\ future_forecast' = FutureIndex(model_df)
          /\ stages' = Enter(Enter(stages, "FINAL REFIT"), "FUTURE FORECAST")
          /\ printed' = Append(printed, "Future Forecast (Next 3 Months)")
          /\ pc' = "return"
          /\ UNCHANGED raised
    /\ UNCHANGED <<inputVars, seriesVars, baselineVars, hw, sarima, results,
                   returned>>

\* return pd.DataFrame(results), and main prints the scorecard; run_predictions
\* returns nothing and main prints its closing line
Return ==
    /\ pc = "return"
    /\ IF script = "prediction"
       THEN /\ returned' = [kind |-> "DataFrame", table |-> results]
            /\ printed' = Append(printed, "Summary of Model Performance")
       ELSE /\ returned' = [kind |-> "None", table |-> <<>>]
            /\ printed' = Append(printed, "ANALYSIS COMPLETE")
    /\ pc' = "done"
    /\ UNCHANGED <<inputVars, stages, seriesVars, baselineVars, hw, sarima,
                   finalVars, results, raised>>

Next ==
    \/ StructuralBreakCheck
    \/ SetIndexAsfreq
    \/ Split
    \/ Naive
    \/ SeasonalNaive
    \/ HoltWinters
    \/ Sarima
    \/ PlotComparison
    \/ FutureForecast
    \/ Return

Spec == Init /\ [][Next]_vars

\* -------------------------------------------------------------- aggregator
Counties == {"Statewide", "Alameda", "Alpine"}
AggScripts == {"prediction", "food_bank", "colab"}
TableRows == [Date : 0..MaxAggDate, County : Counties, HH : 1..MaxAggVal]
InputTables == UNION {[1..k -> TableRows] : k \in 0..MaxRows}

IsStatewide(r) == r.County = "Statewide"
NotStatewide(r) == r.County # "Statewide"
DateHH(table) == [i \in DOMAIN table |-> [Date |-> table[i].Date, HH |-> table[i].HH]]

RECURSIVE SumHH(_)
SumHH(table) == IF table = <<>> THEN 0 ELSE Head(table).HH + SumHH(Tail(table))

RECURSIVE Ascending(_)
\* the elements of a finite set of integers, in increasing order
Ascending(S) ==
    IF S = {} THEN <<>>
    ELSE LET m == CHOOSE x \in S : \A y \in S : x <= y
         IN  <<m>> \o Ascending(S \ {m})

\* groupby('Date') keeping the last row of each group instead of its sum
GroupbySum_LastRow(table) ==
    LET keys == Ascending({table[i].Date : i \in DOMAIN table})
    IN  [k \in DOMAIN keys |->
            LET group == SelectSeq(table, LAMBDA r : r.Date = keys[k])
            IN  [Date |-> keys[k], HH |-> Last(group).HH]]

\* .groupby('Date').sum().reset_index(): one row per date, keys ascending
GroupbySum(table) ==
    LET keys == Ascending({table[i].Date : i \in DOMAIN table})
    IN  [k \in DOMAIN keys |->
            [Date |-> keys[k],
             HH   |-> SumHH(SelectSeq(table, LAMBDA r : r.Date = keys[k]))]]

\* statewide = df[County == 'Statewide']; if statewide.empty: statewide =
\* df[County != 'Statewide'].groupby('Date').sum().reset_index()
StatewideFrame(table) ==
    LET statewide == SelectSeq(table, IsStatewide)
    IN  IF statewide = <<>> THEN GroupbySum(SelectSeq(table, NotStatewide))
        ELSE DateHH(statewide)

Count(frame, r) == Cardinality({i \in DOMAIN frame : frame[i] = r})
SameRows(a, b) ==
    /\ Len(a) = Len(b)
    /\ \A r \in Range(a) \cup Range(b) : Count(a, r) = Count(b, r)

\* .sort_values('Date') with the default (unstable) quicksort: the outcomes are
\* the orderings of the frame by Date, rows of equal Date in any order
SortValues(frame) ==
    {g \in [DOMAIN frame -> Range(frame)] :
        /\ SameRows(g, frame)
        /\ \A i, j \in DOMAIN g : i < j => g[i].Date <= g[j].Date}

InitAgg ==
    /\ script \in AggScripts
    /\ rows \in InputTables
    /\ pc = "load"
    /\ df = <<>>
    /\ stages = <<>>
    /\ model_rows = <<>>
    /\ model_df = <<>>
    /\ train = <<>>
    /\ test = <<>>
    /\ y_pred_naive = <<>>
    /\ y_pred_snaive = <<>>
    /\ snaive_src = <<>>
    /\ hw = "none"
    /\ sarima = "none"
    /\ final = "none"
    /\ final_input = <<>>
    /\ future_forecast = <<>>
    /\ results = <<>>
    /\ printed = <<>>
    /\ raised = "none"
    /\ returned = NoReturn
    /\ ExtIdle

\* load_data (prediction.py) from the aggregation on, plot_statewide_trend
\* (food_bank_analysis.py, google_colab_script.py) up to its sort
Aggregate ==
    /\ pc = "load"
    /\ df' \in SortValues(StatewideFrame(rows))
    /\ printed' = IF script # "prediction" /\ SelectSeq(rows, IsStatewide) = <<>>
                  THEN Append(printed, "Aggregating all counties")
                  ELSE printed
    /\ pc' = "aggregated"
    /\ UNCHANGED <<script, rows, stages, seriesVars, baselineVars, hw, sarima,
                   finalVars, results, raised, returned, extVars>>

NextAgg == Aggregate

SpecAgg == InitAgg /\ [][NextAgg]_vars

\* ------------------------------------------------------------ properties
ModelNames(table) == [i \in DOMAIN table |-> table[i].Model]
Entered(stage) == stage \in Range(stages)
ComparisonDone ==
    pc \in {"plot", "final", "return", "done"} \/ (pc = "raised" /\ raised = "final")

\* C1: a Holt-Winters or SARIMA fit on the history that fails is reported as
\* printed text and that model is skipped: no exception leaves the routine at
\* either step, the failed model has no entry, the next step is still taken and
\* every other candidate model is in the table.
C1_FitFailureSkipped ==
    /\ raised \notin {"hw", "sarima"}
    /\ hw = "failed" =>
          /\ "HW Model failed" \in Range(printed)
          /\ "Holt-Winters" \notin Range(ModelNames(results))
          /\ pc = "sarima" \/ sarima # "none"
    /\ sarima = "failed" =>
          /\ "SARIMA failed" \in Range(printed)
          /\ "SARIMA" \notin Range(ModelNames(results))
          /\ ComparisonDone
    /\ (hw = "failed" \/ sarima = "failed") =>
          /\ {"Naive (Last Value)", "Seasonal Naive"} \subseteq Range(ModelNames(results))
          /\ hw = "ok" => "Holt-Winters" \in Range(ModelNames(results))
          /\ sarima = "ok" => "SARIMA" \in Range(ModelNames(results))

C1_Witness == pc = "done" /\ hw = "failed" /\ sarima = "ok"

\* C2: in prediction.py a failure of any model fit of the run, the final SARIMA
\* refit included, is caught: no exception leaves run_models, and a finished run
\* has returned the comparison table and printed the summary.
C2_AnyFitFailureCaught ==
    (script = "prediction" /\ "failed" \in {hw, sarima, final}) =>
        /\ raised = "none"
        /\ pc \notin {"hw", "sarima", "plot", "final", "return"} =>
              /\ returned = [kind |-> "DataFrame", table |-> results]
              /\ "Summary of Model Performance" \in Range(printed)

\* C3: once the comparison stage is over the table holds exactly one entry
\* (Model, MAE, RMSE, MAPE) per successfully fitted model, none for a failed
\* one, in the order Naive, Seasonal Naive, Holt-Winters, SARIMA.
C3_ResultsTable ==
    ComparisonDone =>
        /\ ModelNames(results) =
               <<"Naive (Last Value)", "Seasonal Naive">>
               \o (IF hw = "ok" THEN <<"Holt-Winters">> ELSE <<>>)
               \o (IF sarima = "ok" THEN <<"SARIMA">> ELSE <<>>)
        /\ \A i \in DOMAIN results :
               DOMAIN results[i] = {"Model", "MAE", "RMSE", "MAPE"}

C3_Witness ==
    pc = "plot" /\ hw = "ok" /\ sarima = "failed" /\ Len(results) = 3

\* C4 as stated: every run that returns has passed through all six stages, in
\* the order of the specification.
C4_AllStagesEveryRun == pc = "done" => stages = AllStages

\* C4 as amended: stages are entered in the order of the specification with none
\* skipped before a later one; run_models of prediction.py returns only after
\* all six, run_predictions of the Colab script returns after the first four
\* (it has no final refit and no future forecast).
C4_StagesInOrder ==
    /\ \E k \in 0..Len(AllStages) : stages = SubSeq(AllStages, 1, k)
    /\ (pc = "done" /\ script = "prediction") => stages = AllStages
    /\ (pc = "done" /\ script = "colab") => stages = SubSeq(AllStages, 1, 4)

C4_Witness == pc = "done" /\ script = "prediction" /\ Len(stages) = 6

Min(a, b) == IF a < b THEN a ELSE b
SplitDone == Entered("TRAIN/TEST SPLIT")
Disjoint(a, b) == \A i \in DOMAIN a : \A j \in DOMAIN b : a[i].Date # b[j].Date

\* C5 as stated: whatever the (non-empty) series, the holdout is exactly its
\* last 6 observations, the history all earlier ones, history followed by
\* holdout is the series, and the two share no observation.
C5_HoldoutAlwaysSix ==
    (SplitDone /\ model_df # <<>>) =>
        /\ Len(test) = TestMonths
        /\ train \o test = model_df
        /\ Disjoint(train, test)

\* C5 as amended: the holdout is the last min(6, n) observations of a series of
\* n observations (all of them when n < 6, the history then being empty), the
\* history is all earlier observations, history followed by holdout is the
\* series, and the two share no observation.
C5_SplitLastSix ==
    SplitDone =>
        LET n == Len(model_df)
            k == Min(TestMonths, n)
        IN  /\ Len(test) = k
            /\ Len(train) = n - k
            /\ \A i \in 1..k : test[i] = model_df[n - k + i]
            /\ \A i \in 1..(n - k) : train[i] = model_df[i]
            /\ train \o test = model_df
            /\ Disjoint(train, test)

C5_Witness ==
    SplitDone /\ Len(test) = TestMonths /\ Len(train) = 7 /\ train[7].v # test[1].v

\* C6: the Naive prediction has one value per holdout period, each equal to the
\* last history value, the observation just before the holdout: for the
\* 6-period holdout the same constant 6 times.
C6_NaiveConstant ==
    pc \in {"snaive", "hw", "sarima", "plot", "final", "return", "done"} =>
        /\ Len(y_pred_naive) = Len(test)
        /\ Len(test) = TestMonths
        /\ \A i \in DOMAIN y_pred_naive :
               y_pred_naive[i] = model_df[Len(model_df) - TestMonths].v
        /\ results[1].Model = "Naive (Last Value)"

C6_Witness ==
    /\ pc = "snaive"
    /\ Len(y_pred_naive) = TestMonths
    /\ y_pred_naive[1] # Head(train).v
    /\ y_pred_naive[1] # test[1].v

C8_StructuralBreak ==
    Entered("STRUCTURAL-BREAK CHECK") =>
        LET pre   == {i \in DOMAIN df : df[i].Date < 2}
            post  == DOMAIN df \ pre
            RECURSIVE Total(_)
            Total(S) == IF S = {} THEN 0
                        ELSE LET i == CHOOSE x \in S : TRUE
                             IN  df[i].HH + Total(S \ {i})
            fires == /\ pre # {}
                     /\ post # {}
                     /\ 2 * Total(post) * Cardinality(pre)
                            > 3 * Total(pre) * Cardinality(post)
            early(series) == \E i \in DOMAIN series : series[i].Date < 2
        IN  /\ fires => /\ \A i \in DOMAIN model_rows : model_rows[i].Date >= 2
                        /\ \A i \in post : \E j \in DOMAIN model_rows :
                               model_rows[j] = df[i]
                        /\ Len(model_rows) = Cardinality(post)
                        /\ ~early(model_df) /\ ~early(train) /\ ~early(test)
                        /\ ~early(final_input)
            /\ ~fires => model_rows = df

C8_Witness ==
    /\ pc = "done"
    /\ \E i \in DOMAIN df : df[i].Date < BreakDate
    /\ Len(model_rows) < Len(df)
    /\ Len(train) >= 1

\* C9: the final forecast comes from the model refitted on the full cleaned
\* series, the history together with the 6 holdout observations, and has
\* exactly 3 periods, all later than the last known observation.
C9_FinalForecast ==
    final = "ok" =>
        /\ final_input = train \o test
        /\ Len(test) = 6
        /\ Len(final_input) = Len(train) + 6
        /\ Len(future_forecast) = 3
        /\ \A i \in DOMAIN future_forecast :
               /\ \A j \in DOMAIN final_input :
                      future_forecast[i] > final_input[j].Date
               /\ \A j \in DOMAIN test : future_forecast[i] > test[j].Date
        /\ \A i, j \in DOMAIN future_forecast :
               i < j => future_forecast[i] < future_forecast[j]

C9_Witness == final = "ok" /\ pc = "done" /\ Len(train) >= 1

\* C10 as stated: the aggregator decides per period: every period of the table
\* has exactly one output row, the period's "Statewide" row when there is one
\* and the sum of the period's other rows when there is none (stated for the
\* tables that hold at most one "Statewide" row per period).
C10_PerPeriod ==
    (/\ pc = "aggregated"
     /\ \A i, j \in DOMAIN rows :
            (/\ i # j
             /\ rows[i].County = "Statewide"
             /\ rows[j].County = "Statewide") => rows[i].Date # rows[j].Date) =>
        \A d \in {rows[i].Date : i \in DOMAIN rows} :
            LET sw  == {i \in DOMAIN rows : rows[i].Date = d /\ rows[i].County = "Statewide"}
                out == {j \in DOMAIN df : df[j].Date = d}
            IN  /\ Cardinality(out) = 1
                /\ \A j \in out :
                       IF sw # {} THEN \E i \in sw : df[j].HH = rows[i].HH
                       ELSE df[j].HH =
                                SumHH(SelectSeq(rows, LAMBDA r : r.Date = d))

\* C10 as amended: the aggregator decides once for the whole table. If the table
\* has any "Statewide" row the output is exactly its "Statewide" rows, ordered
\* by period (a period without such a row is absent, a period with several keeps
\* them all); only if it has none is the output one row per period holding the
\* sum of that period's rows.
C10_WholeTable ==
    pc = "aggregated" =>
        LET sw == {i \in DOMAIN rows : rows[i].County = "Statewide"}
        IN  /\ \A i, j \in DOMAIN df : i < j => df[i].Date <= df[j].Date
            /\ sw # {} =>
                  /\ Len(df) = Cardinality(sw)
                  /\ \A r \in Range(df) :
                         Count(df, r) =
                             Cardinality({i \in sw :
                                 rows[i].Date = r.Date /\ rows[i].HH = r.HH})
            /\ sw = {} =>
                  /\ {df[j].Date : j \in DOMAIN df} = {rows[i].Date : i \in DOMAIN rows}
                  /\ \A i, j \in DOMAIN df : i < j => df[i].Date < df[j].Date
                  /\ \A j \in DOMAIN df :
                         df[j].HH = SumHH(SelectSeq(rows, LAMBDA r : r.Date = df[j].Date))

C10_Witness ==
    /\ pc = "aggregated"
    /\ Len(rows) = 3
    /\ \A i \in DOMAIN rows : rows[i].County # "Statewide"
    /\ rows[1].Date = rows[3].Date
    /\ rows[1].Date > rows[2].Date
    /\ Len(df) = 2

\* C11 as stated: on both aggregation paths the statewide frame has unique,
\* strictly increasing timestamps: no two rows share a date and every row is
\* dated later than the row before it.
C11_TimestampsStrictlyIncreasing ==
    pc = "aggregated" =>
        \A i, j \in DOMAIN df : i < j => df[i].Date < df[j].Date

\* ------------------------------------------------------- loaders: operators
\* A text cell is a sequence of one-character strings.
MaxCell == 3    \* characters of a text cell of a numeric column
MaxRaw == 2     \* rows of the file a loader reads

CellChars == {"1", "2", ".", ",", "*", "%", " ", "x"}
Cells == UNION {[1..k -> CellChars] : k \in 0..MaxCell}

DigitChars == <<"0", "1", "2", "3", "4", "5", "6", "7", "8", "9">>
IsDigit(c) == \E i \in DOMAIN DigitChars : DigitChars[i] = c
DigitVal(c) == (CHOOSE i \in DOMAIN DigitChars : DigitChars[i] = c) - 1
AllDigits(s) == \A i \in DOMAIN s : IsDigit(s[i])

RECURSIVE IntOf(_)
IntOf(s) ==
    IF s = <<>> THEN 0
    ELSE 10 * IntOf(SubSeq(s, 1, Len(s) - 1)) + DigitVal(s[Len(s)])

RECURSIVE Pow10(_)
Pow10(n) == IF n = 0 THEN 1 ELSE 10 * Pow10(n - 1)

\* Series.str.replace(c, ''): every occurrence of the character removed
StrReplace(s, c) == SelectSeq(s, LAMBDA x : x # c)

RECURSIVE StrReplaceAll(_, _)
StrReplaceAll(s, cs) ==
    IF cs = <<>> THEN s ELSE StrReplaceAll(StrReplace(s, Head(cs)), Tail(cs))

\* Series.str.strip(): leading and trailing whitespace removed
RECURSIVE LStrip(_)
LStrip(s) == IF s # <<>> /\ Head(s) = " " THEN LStrip(Tail(s)) ELSE s

RECURSIVE RStrip(_)
RStrip(s) ==
    IF s # <<>> /\ s[Len(s)] = " " THEN RStrip(SubSeq(s, 1, Len(s) - 1)) ELSE s

Strip(s) == LStrip(RStrip(s))

\* pd.to_numeric(errors='coerce') on an unsigned decimal text: digits with at
\* most one decimal point and at least one digit; anything else is NaN
ToNumeric(s) ==
    LET dots == {i \in DOMAIN s : s[i] = "."}
    IN  IF \E i \in DOMAIN s : ~IsDigit(s[i]) /\ s[i] # "." THEN NaN
        ELSE IF Cardinality(dots) > 1 \/ Len(s) = Cardinality(dots) THEN NaN
        ELSE IF dots = {} THEN RInt(IntOf(s))
        ELSE LET p == CHOOSE i \in dots : TRUE
                 whole == SubSeq(s, 1, p - 1)
                 frac  == SubSeq(s, p + 1, Len(s))
             IN  Rat(IntOf(whole \o frac), Pow10(Len(frac)))

\* the characters each loader removes from a text cell, in the order of its
\* str.replace calls
Loaders ==
    {"food_bank", "colab", "prediction", "recession_lag", "heat_calendar",
     "demand_spikes_monthly", "purchasing_power"}

Removed(l) ==
    CASE l \in {"food_bank", "colab", "prediction"} -> <<",", "*", "%">>
      [] l = "recession_lag"                         -> <<",", "%", "%">>
      [] l = "heat_calendar"                         -> <<",", "%">>
      [] l = "demand_spikes_monthly"                 -> <<",">>
      [] l = "purchasing_power"                      -> <<",", "]">>

\* a loader's cleaning of one text cell of a numeric column
CleanNumeric(l, s) == ToNumeric(Strip(StrReplaceAll(s, Removed(l))))

\* the forecaster's and aggregator's state while another part of the program
\* is examined
coreVars == <<script, rows, df, stages, seriesVars, baselineVars, hw, sarima,
              finalVars, results>>

CoreIdle ==
    /\ script = "none"
    /\ rows = <<>>
    /\ df = <<>>
    /\ stages = <<>>
    /\ model_rows = <<>>
    /\ model_df = <<>>
    /\ train = <<>>
    /\ test = <<>>
    /\ y_pred_naive = <<>>
    /\ y_pred_snaive = <<>>
    /\ snaive_src = <<>>
    /\ hw = "none"
    /\ sarima = "none"
    /\ final = "none"
    /\ final_input = <<>>
    /\ future_forecast = <<>>
    /\ results = <<>>
    /\ printed = <<>>
    /\ raised = "none"
    /\ returned = NoReturn

\* --------------------------------------------- loaders: dates and columns
EpochYear == 2019       \* month numbers count from January of this year

NaT == [valid |-> FALSE, month |-> 0]
Timestamp(m) == [valid |-> TRUE, month |-> m]

MonthAbbr ==
    << <<"J", "a", "n">>, <<"F", "e", "b">>, <<"M", "a", "r">>,
       <<"A", "p", "r">>, <<"M", "a", "y">>, <<"J", "u", "n">>,
       <<"J", "u", "l">>, <<"A", "u", "g">>, <<"S", "e", "p">>,
       <<"O", "c", "t">>, <<"N", "o", "v">>, <<"D", "e", "c">> >>

IsMonthAbbr(s) == \E i \in DOMAIN MonthAbbr : MonthAbbr[i] = s
MonthNumber(s) == CHOOSE i \in DOMAIN MonthAbbr : MonthAbbr[i] = s

\* strptime's %y: 00..68 are 2000..2068, 69..99 are 1969..1999
CenturyOf(yy) == IF yy <= 68 THEN 2000 + yy ELSE 1900 + yy

\* pd.to_datetime(format=fmt, errors='coerce') for the two formats in use:
\* '%b-%y' (Jan-19) and '%b %Y' (Jan 2019); anything else is NaT
ToDatetime(fmt, s) ==
    LET ylen == IF fmt = "%b-%y" THEN 2 ELSE 4
        sep  == IF fmt = "%b-%y" THEN "-" ELSE " "
    IN  IF /\ Len(s) = 4 + ylen
           /\ IsMonthAbbr(SubSeq(s, 1, 3))
           /\ s[4] = sep
           /\ AllDigits(SubSeq(s, 5, Len(s)))
        THEN LET n    == IntOf(SubSeq(s, 5, Len(s)))
                 year == IF fmt = "%b-%y" THEN CenturyOf(n) ELSE n
             IN  Timestamp((year - EpochYear) * 12 + MonthNumber(SubSeq(s, 1, 3)) - 1)
        ELSE NaT

DateFormat(l) == IF l \in {"demand_spikes_monthly", "heat_calendar"} THEN "%b %Y" ELSE "%b-%y"

\* Series.str.startswith / Series.str.contains on a literal
StartsWith(s, p) == Len(s) >= Len(p) /\ SubSeq(s, 1, Len(p)) = p
Contains(s, p) == \E i \in 1..(Len(s) - Len(p) + 1) : SubSeq(s, i, i + Len(p) - 1) = p

target_cols(l) ==
    IF l = "prediction"
    THEN <<"Date", "County", "CalFresh Households", "Unemployment Monthly">>
    ELSE <<"Date", "County", "CalFresh Households", "CalFresh Persons",
           "Unemployment Monthly">>

\* [c for c in target_cols if c not in df.columns]
MissingCols(l, cols) == SelectSeq(target_cols(l), LAMBDA c : c \notin cols)

\* the frame after date parsing and numeric cleaning; idx is the row's index
\* label, which pandas keeps through every later filter
ParseRows(l, table) ==
    [i \in DOMAIN table |->
        [idx  |-> i,
         Date |-> ToDatetime(DateFormat(l), table[i].Date),
         HH   |-> CleanNumeric(l, table[i].HH)]]

IsNa(r, col) == IF col = "Date" THEN ~r.Date.valid ELSE ~IsNum(r.HH)

DropNa_KeepsAll(frame, subset) == frame

\* DataFrame.dropna(subset=...)
DropNa(frame, subset) ==
    SelectSeq(frame, LAMBDA r : \A col \in subset : ~IsNa(r, col))

\* sort_values('parsed_date') with the default (unstable) quicksort
SortByDate(frame) ==
    {g \in [DOMAIN frame -> Range(frame)] :
        /\ SameRows(g, frame)
        /\ \A i, j \in DOMAIN g : i < j => g[i].Date.month <= g[j].Date.month}

\* ------------------------------------------------ loaders: numeric cleaning
InitClean ==
    /\ loader \in Loaders
    /\ cell \in Cells
    /\ cleaned = NaN
    /\ pc = "clean"
    /\ columns = {}
    /\ raw = <<>>
    /\ missing_cols = <<>>
    /\ df_clean = <<>>
    /\ SpikesIdle
    /\ OtherIdle
    /\ CoreIdle

\* the cleaning of one text cell: the str.replace chain, str.strip and
\* pd.to_numeric(errors='coerce')
CleanCell ==
    /\ pc = "clean"
    /\ cleaned' = CleanNumeric(loader, cell)
    /\ pc' = "cleaned"
    /\ UNCHANGED <<coreVars, printed, raised, returned, loaderVars, cell,
                   spikeVars, otherVars>>

NextClean == CleanCell

SpecClean == InitClean /\ [][NextClean]_vars

\* C14 as stated: every loader turns a text cell into the number read from the
\* cell with every ',', '*' and '%' and the surrounding whitespace removed, and
\* into a missing value when that remainder is not a number.
C14_SameRulesEveryLoader ==
    pc = "cleaned" =>
        cleaned = ToNumeric(Strip(StrReplaceAll(cell, <<",", "*", "%">>)))

\* ------------------------------------------------------ loaders: whole file
TableLoaders == {"food_bank", "colab", "prediction", "demand_spikes_monthly"}
StatewideLoaders == {"food_bank", "colab", "prediction"}

AllColumns == Range(target_cols("food_bank"))
Droppable == {"Date", "CalFresh Persons", "Unemployment Monthly"}
ColumnSets == {AllColumns \ m : m \in SUBSET Droppable}

DateCells ==
    { <<"J", "a", "n", "-", "1", "9">>,
      <<"F", "e", "b", "-", "1", "9">>,
      <<"J", "a", "n", " ", "2", "0", "1", "9">>,
      <<"F", "e", "b", " ", "2", "0", "1", "9">>,
      <<"F", "Y", " ", "2", "0", "1", "9">>,
      <<"A", "N", "N", "U", "A", "L">> }

HHCells == { <<"1", "2">>, <<"1", "*">>, <<"x">> }

RawRows == [Date : DateCells, HH : HHCells]
RawTables == UNION {[1..k -> RawRows] : k \in 0..MaxRaw}

InitLoad ==
    /\ loader \in TableLoaders
    /\ columns \in (IF loader \in StatewideLoaders THEN ColumnSets ELSE {{}})
    /\ raw \in RawTables
    /\ missing_cols = <<>>
    /\ df_clean = <<>>
    /\ pc = "load"
    /\ CleanIdle
    /\ SpikesIdle
    /\ OtherIdle
    /\ CoreIdle

\* load_and_clean_data (food_bank_analysis.py, google_colab_script.py) on a
\* file that exists and can be read
LoadAndCleanData ==
    /\ pc = "load"
    /\ loader \in {"food_bank", "colab"}
    /\ missing_cols' = MissingCols(loader, columns)
    /\ IF missing_cols' # <<>>
       THEN /\ printed' = printed \o <<"ERROR: Missing expected columns",
                                       "Available columns snippet">>
            /\ df_clean' = <<>>
            /\ returned' = [kind |-> "None", table |-> <<>>]
       ELSE /\ df_clean' = DropNa(ParseRows(loader, raw), {"Date"})
            /\ printed' = Append(printed, "Data Cleaning Summary")
            /\ returned' = [kind |-> "DataFrame", table |-> <<>>]
    /\ pc' = "loaded"
    /\ UNCHANGED <<coreVars, raised, loader, columns, raw, cleanVars,
                   spikeVars, otherVars>>

\* load_data (prediction.py) up to its dropna: no column check, so a required
\* column that is absent makes df[target_cols] raise KeyError
LoadData ==
    /\ pc = "load"
    /\ loader = "prediction"
    /\ IF MissingCols(loader, columns) # <<>>
       THEN /\ Raise("load_data")
            /\ UNCHANGED df_clean
       ELSE /\ df_clean' = DropNa(ParseRows(loader, raw), {"Date", "CalFresh Households"})
            /\ pc' = "loaded"
            /\ UNCHANGED raised
    /\ UNCHANGED <<coreVars, printed, returned, loader, columns, raw,
                   missing_cols, cleanVars, spikeVars, otherVars>>

\* analyze_demand_spikes_monthly (contra_costa_analysis.py), its cleaning step:
\* summary rows dropped, dates parsed, unparsed rows dropped, rows sorted
LoadMonthly ==
    /\ pc = "load"
    /\ loader = "demand_spikes_monthly"
    /\ LET monthly == SelectSeq(ParseRows(loader, raw),
                          LAMBDA r : /\ ~StartsWith(raw[r.idx].Date, <<"F", "Y">>)
                                     /\ ~Contains(raw[r.idx].Date,
                                                  <<"A", "N", "N", "U", "A", "L">>))
       IN  df_clean' \in SortByDate(DropNa(monthly, {"Date"}))
    /\ pc' = "loaded"
    /\ UNCHANGED <<coreVars, printed, raised, returned, loader, columns, raw,
                   missing_cols, cleanVars, spikeVars, otherVars>>

NextLoad == LoadAndCleanData \/ LoadData \/ LoadMonthly

SpecLoad == InitLoad /\ [][NextLoad]_vars

\* C12 as stated: each of the three loaders, given a file that lacks columns it
\* requires, reports a "missing columns" condition naming exactly the absent
\* columns and returns no data; it neither raises nor returns rows.
C12_MissingColumnsReported ==
    (/\ pc \in {"loaded", "raised"}
     /\ loader \in StatewideLoaders
     /\ Range(target_cols(loader)) \ columns # {}) =>
        /\ raised = "none"
        /\ returned.kind = "None"
        /\ df_clean = <<>>
        /\ \E i \in DOMAIN printed : printed[i] = "ERROR: Missing expected columns"
        /\ Range(missing_cols) = Range(target_cols(loader)) \ columns

\* strftime of a month number in a loader's date format
Digits(n, width) ==
    [i \in 1..width |-> DigitChars[((n \div Pow10(width - i)) % 10) + 1]]

Strftime(fmt, m) ==
    LET year == EpochYear + (m \div 12)
    IN  MonthAbbr[(m % 12) + 1] \o
        (IF fmt = "%b-%y" THEN <<"-">> \o Digits(year % 100, 2)
         ELSE <<" ">> \o Digits(year, 4))

\* the months a date cell can name
CellMonths == 0..23

DateParses(l, s) == \E m \in CellMonths : Strftime(DateFormat(l), m) = s
MonthNamed(l, s) == CHOOSE m \in CellMonths : Strftime(DateFormat(l), m) = s

C12_CheckedLoaders ==
    (/\ pc = "loaded"
     /\ loader \in {"food_bank", "colab"}
     /\ Range(target_cols(loader)) \ columns # {}) =>
        /\ raised = "none"
        /\ returned.kind = "None"
        /\ df_clean = <<>>
        /\ Range(missing_cols) = Range(target_cols(loader)) \ columns

\* ------------------------------------------------- month-over-month change
MaxSeries == 4      \* rows of the series handed to pct_change

\* household counts of the series: numbers, or NaN where cleaning coerced
HouseholdVals == {RInt(v) : v \in Vals} \cup {NaN}
SeriesOf(maxlen, values) == UNION {[1..k -> values] : k \in 0..maxlen}

\* IEEE x / y on non-negative operands, NaN operands included
Div(x, y) == IF x = NaN \/ y = NaN THEN NaN ELSE FDiv(x, y)

SubOne_Skipped(x) == x

\* IEEE x - 1: inf - 1 is inf, NaN - 1 is NaN
SubOne(x) == IF IsNum(x) THEN RSub(x, RInt(1)) ELSE x

\* Series.ffill(): each NaN replaced by the last non-NaN before it, if any
Ffill(v) ==
    [t \in DOMAIN v |->
        LET seen == {u \in 1..t : v[u] # NaN}
        IN  IF seen = {} THEN NaN
            ELSE v[CHOOSE u \in seen : \A w \in seen : w <= u]]

PctChange_NextRow(v, fill) ==
    [t \in DOMAIN v |->
        IF t = Len(v) THEN NaN ELSE SubOne(Div(v[t + 1], v[t]))]

\* Series.pct_change(): data / data.shift(1) - 1 on the series, forward-filled
\* first when the pandas in use pads by default
PctChange(v, fill) ==
    LET data == IF fill = "pad" THEN Ffill(v) ELSE v
    IN  [t \in DOMAIN v |->
            IF t = 1 THEN NaN ELSE SubOne(Div(data[t], data[t - 1]))]

InitMoM ==
    /\ households \in SeriesOf(MaxSeries, HouseholdVals)
    /\ fill_method \in {"pad", "None"}
    /\ mom_change = <<>>
    /\ mom_zscore = <<>>
    /\ spikes = {}
    /\ images = {}
    /\ pc = "pct_change"
    /\ LoaderIdle
    /\ CleanIdle
    /\ OtherIdle
    /\ CoreIdle

\* main: statewide_df['MoM_Change'] = statewide_df['CalFresh Households'].pct_change()
MoMChange ==
    /\ pc = "pct_change"
    /\ mom_change' = PctChange(households, fill_method)
    /\ pc' = "changed"
    /\ UNCHANGED <<coreVars, printed, raised, returned, loaderVars, cleanVars,
                   households, fill_method, mom_zscore, spikes, images,
                   otherVars>>

NextMoM == MoMChange

SpecMoM == InitMoM /\ [][NextMoM]_vars

\* (a - b) / b in IEEE arithmetic on non-negative a, b (NaN allowed):
\* NaN if an operand is NaN or both are 0, inf if only b is 0
RelChange(a, b) ==
    IF a = NaN \/ b = NaN THEN NaN
    ELSE IF b = RInt(0) THEN (IF a = RInt(0) THEN NaN ELSE Inf)
    ELSE RMul(RSub(a, b), Rat(b[2], b[1]))

IsConstant(v) ==
    /\ v # <<>>
    /\ v[1] # NaN
    /\ \A t \in DOMAIN v : v[t] = v[1]

\* C17 as stated: for a constant series, whatever the constant (0 included),
\* the change is exactly 0 at every row but the first, which has none.
C17_ConstantSeriesZeroChange ==
    pc = "changed" /\ IsConstant(households) =>
        \A t \in DOMAIN households :
            mom_change[t] = IF t = 1 THEN NaN ELSE RInt(0)

\* C17 as amended: the same for every constant other than 0; for the constant 0
\* the change is undefined (0/0) at every row.
C17_NonZeroConstant ==
    pc = "changed" /\ IsConstant(households) =>
        \A t \in DOMAIN households :
            mom_change[t] =
                IF t = 1 \/ households[1] = RInt(0) THEN NaN ELSE RInt(0)

C17_Witness ==
    /\ pc = "changed"
    /\ IsConstant(households)
    /\ households[1] = RInt(2)
    /\ Len(households) = 3
    /\ mom_change = <<NaN, RInt(0), RInt(0)>>

\* ------------------------------------------------------------ spike detector
MaxSpikeObs == 8    \* rows of the statewide frame handed to analyze_spikes

SpikeVals == {RInt(0), RInt(1), RInt(2)}
SpikeScripts == {"food_bank", "colab"}

\* the entries a pandas reduction uses: skipna=True drops NaN, keeps inf
SkipNa(c) == SelectSeq(c, LAMBDA x : x # NaN)

\* Series.mean(): NaN without entries, inf when an entry is inf
ColMean(c) ==
    LET xs == SkipNa(c)
    IN  IF xs = <<>> THEN NaN
        ELSE IF \E i \in DOMAIN xs : xs[i] = Inf THEN Inf
        ELSE Mean(xs)

RECURSIVE SumSqDev(_, _)
SumSqDev(xs, m) ==
    IF xs = <<>> THEN RInt(0)
    ELSE RAdd(RMul(RSub(Head(xs), m), RSub(Head(xs), m)), SumSqDev(Tail(xs), m))

ColVar_Population(c) ==
    LET xs == SkipNa(c)
    IN  IF Len(xs) < 1 \/ \E i \in DOMAIN xs : xs[i] = Inf THEN NaN
        ELSE RMul(SumSqDev(xs, Mean(xs)), Rat(1, Len(xs)))

\* the square of Series.std(): the sample variance (ddof=1); NaN with fewer
\* than two entries or with an inf entry
ColVar(c) ==
    LET xs == SkipNa(c)
    IN  IF Len(xs) < 2 \/ \E i \in DOMAIN xs : xs[i] = Inf THEN NaN
        ELSE RMul(SumSqDev(xs, Mean(xs)), Rat(1, Len(xs) - 1))

Sign(x) == IF x[1] > 0 THEN 1 ELSE IF x[1] < 0 THEN -1 ELSE 0

\* (c - mean) / std, kept as sign * ((c - mean)^2 / variance) so that it stays
\* rational; NaN when an operand is NaN or the division is 0/0
ZScore(c) ==
    LET m == ColMean(c)
        v == ColVar(c)
    IN  [t \in DOMAIN c |->
            IF c[t] = NaN \/ v = NaN \/ v = RInt(0) THEN NaN
            ELSE LET dev == RSub(c[t], m)
                 IN  RMul(RInt(Sign(dev)), RMul(RMul(dev, dev), Rat(v[2], v[1])))]

\* z > 2 on the squared score; a comparison with NaN is False
GtTwo(zs) == zs # NaN /\ RGt(zs, RInt(4))

InitSpikes ==
    /\ script \in SpikeScripts
    /\ households \in SeriesOf(MaxSpikeObs, SpikeVals)
    /\ fill_method \in {"pad", "None"}
    /\ mom_change = <<>>
    /\ mom_zscore = <<>>
    /\ spikes = {}
    /\ images = {}
    /\ pc = "spikes"
    /\ rows = <<>>
    /\ df = <<>>
    /\ stages = <<>>
    /\ model_rows = <<>>
    /\ model_df = <<>>
    /\ train = <<>>
    /\ test = <<>>
    /\ y_pred_naive = <<>>
    /\ y_pred_snaive = <<>>
    /\ snaive_src = <<>>
    /\ hw = "none"
    /\ sarima = "none"
    /\ final = "none"
    /\ final_input = <<>>
    /\ future_forecast = <<>>
    /\ results = <<>>
    /\ printed = <<>>
    /\ raised = "none"
    /\ returned = NoReturn
    /\ LoaderIdle
    /\ CleanIdle
    /\ OtherIdle

\* analyze_spikes (food_bank_analysis.py, google_colab_script.py)
AnalyzeSpikes ==
    /\ pc = "spikes"
    /\ mom_change' = PctChange(households, fill_method)
    /\ mom_zscore' = ZScore(mom_change')
    /\ spikes' = {t \in DOMAIN mom_zscore' : GtTwo(mom_zscore'[t])}
    /\ printed' = printed \o
                  <<"=== Demand Spikes Detected (Statewide) ===",
                    IF spikes' # {} THEN "spikes"
                    ELSE "No significant positive spikes (Z-score > 2) detected.">>
    /\ images' = IF script = "food_bank" THEN images \cup {"demand_spikes.png"}
                 ELSE images
    /\ pc' = "spikes_done"
    /\ UNCHANGED <<coreVars, raised, returned, loaderVars, cleanVars,
                   households, fill_method, otherVars>>

NextSpikes == AnalyzeSpikes

SpecSpikes == InitSpikes /\ [][NextSpikes]_vars

RECURSIVE SumSquares(_)
SumSquares(xs) ==
    IF xs = <<>> THEN RInt(0)
    ELSE RAdd(RMul(Head(xs), Head(xs)), SumSquares(Tail(xs)))

\* (c - mean) / stdev > 2 with the mean and the sample standard deviation of
\* the n defined changes xs, free of roots and divisions:
\* n*c - S > 0 and (n - 1) * (n*c - S)^2 > 4 * n * (n*Q - S^2),
\* where S is the sum and Q the sum of squares of xs
MoreThanTwoStdevAbove(c, xs) ==
    LET n  == RInt(Len(xs))
        S  == SumSeq(xs)
        Q  == SumSquares(xs)
        nd == RSub(RMul(n, c), S)
    IN  /\ Len(xs) >= 2
        /\ RGt(nd, RInt(0))
        /\ RGt(RMul(RInt(Len(xs) - 1), RMul(nd, nd)),
               RMul(RMul(RInt(4), n), RSub(RMul(n, Q), RMul(S, S))))

ExactlyTwoStdevAbove(c, xs) ==
    LET n  == RInt(Len(xs))
        S  == SumSeq(xs)
        Q  == SumSquares(xs)
        nd == RSub(RMul(n, c), S)
    IN  /\ Len(xs) >= 2
        /\ RGt(nd, RInt(0))
        /\ RMul(RInt(Len(xs) - 1), RMul(nd, nd)) =
               RMul(RMul(RInt(4), n), RSub(RMul(n, Q), RMul(S, S)))

\* C18: a row is flagged exactly when its change is defined and lies more than
\* two standard deviations above the mean, both taken over all defined changes
\* of the series, the row's own included; a row whose change is undefined is
\* never flagged, nor is a row exactly two standard deviations above the mean.
C18_FlaggedIffAboveTwo ==
    pc = "spikes_done" =>
        LET xs == SkipNa(mom_change)
            finite == \A i \in DOMAIN xs : xs[i] # Inf
        IN  /\ \A t \in DOMAIN households :
                   t \in spikes <=>
                       /\ mom_change[t] # NaN
                       /\ finite
                       /\ MoreThanTwoStdevAbove(mom_change[t], xs)
            /\ \A t \in spikes : mom_change[t] # NaN
            /\ \A t \in DOMAIN households :
                   (finite /\ mom_change[t] # NaN
                       /\ ExactlyTwoStdevAbove(mom_change[t], xs)) => t \notin spikes
            /\ spikes \subseteq DOMAIN households

C18_Witness ==
    /\ pc = "spikes_done"
    /\ Len(households) = 7
    /\ spikes = {7}
    /\ mom_change[1] = NaN
    /\ mom_change[7] = RInt(1)

C18_ExactlyTwoReached ==
    /\ pc = "spikes_done"
    /\ spikes = {}
    /\ \A t \in DOMAIN households : mom_change[t] # Inf
    /\ \E t \in DOMAIN households :
           /\ mom_change[t] # NaN
           /\ ExactlyTwoStdevAbove(mom_change[t], SkipNa(mom_change))

\* ------------------------------------------------------------- seasonality
SeasonMinObs == 24      \* if len(df_ts) < 24

\* the run's state other than its input while one analysis function is examined
RunIdle ==
    /\ rows = <<>>
    /\ stages = <<>>
    /\ model_rows = <<>>
    /\ model_df = <<>>
    /\ train = <<>>
    /\ test = <<>>
    /\ y_pred_naive = <<>>
    /\ y_pred_snaive = <<>>
    /\ snaive_src = <<>>
    /\ hw = "none"
    /\ sarima = "none"
    /\ final = "none"
    /\ final_input = <<>>
    /\ future_forecast = <<>>
    /\ results = <<>>
    /\ printed = <<>>
    /\ raised = "none"
    /\ returned = NoReturn

InitSeason ==
    /\ script \in SpikeScripts
    /\ df \in InputFrames
    /\ pc = "seasonality"
    /\ df_ts = <<>>
    /\ decomp = "none"
    /\ RunIdle
    /\ LoaderIdle
    /\ CleanIdle
    /\ SpikesIdle
    /\ CorrIdle
    /\ MainIdle
    /\ RestIdle

\* the opposite of the guard len(df_ts) < 24
EnoughData(ts) == Len(ts) >= SeasonMinObs

\* analyze_seasonality (food_bank_analysis.py, google_colab_script.py):
\* set_index('Date').asfreq('MS') stands before the length check and outside the
\* try, and raises ValueError on duplicate dates; seasonal_decompose and the
\* plotting stand inside the try
AnalyzeSeasonality ==
    /\ pc = "seasonality"
    /\ IF HasDuplicateDates(df)
       THEN /\ Raise("analyze_seasonality")
            /\ UNCHANGED <<df_ts, decomp, printed, images, returned>>
       ELSE /\ df_ts' = AsfreqInterpolate(df)
            /\ pc' = "seasonality_done"
            /\ returned' = [kind |-> "None", table |-> <<>>]
            /\ UNCHANGED raised
            /\ IF ~EnoughData(df_ts')
               THEN /\ printed' = Append(printed,
                           "Warning: Not enough data for seasonal decomposition")
                    /\ UNCHANGED <<decomp, images>>
               ELSE \E outcome \in {"ok", "failed"} :
                        /\ decomp' = outcome
                        /\ printed' = Append(printed,
                               IF outcome = "ok" THEN "Seasonal Peak Month"
                               ELSE "Error in seasonality analysis")
                        /\ images' = IF outcome = "ok" /\ script = "food_bank"
                                     THEN images \cup {"seasonality_decomposition.png"}
                                     ELSE images
    /\ UNCHANGED <<coreVars, loaderVars, cleanVars, households, fill_method,
                   mom_change, mom_zscore, spikes, corrVars, mainVars, restVars>>

NextSeason == AnalyzeSeasonality

SpecSeason == InitSeason /\ [][NextSeason]_vars

\* months from the first to the last date of the frame: the observations of
\* the evenly spaced monthly series
MonthsSpanned(frame) ==
    IF frame = <<>> THEN 0 ELSE MaxDateOf(frame) - MinDate(frame) + 1

\* C19 as stated: the decomposition is performed exactly when the monthly
\* series has at least 24 observations; with fewer the function returns no
\* result, prints the insufficient-data warning, writes no image and raises no
\* unhandled failure.
C19_DecomposeIffTwoYears ==
    pc \in {"seasonality_done", "raised"} =>
        /\ decomp # "none" <=> MonthsSpanned(df) >= 24
        /\ MonthsSpanned(df) < 24 =>
              /\ raised = "none"
              /\ returned.kind = "None"
              /\ images = {}
              /\ printed = <<"Warning: Not enough data for seasonal decomposition">>

\* C19, the part that holds: on a frame whose dates are all different
C19_UniqueDates ==
    (pc \in {"seasonality_done", "raised"} /\ ~HasDuplicateDates(df)) =>
        /\ decomp # "none" <=> MonthsSpanned(df) >= 24
        /\ MonthsSpanned(df) < 24 =>
              /\ raised = "none"
              /\ returned.kind = "None"
              /\ images = {}
              /\ printed = <<"Warning: Not enough data for seasonal decomposition">>

\* ------------------------------------------------------- lagged correlation
MaxCorrObs == 5     \* rows of the statewide frame handed to analyze_correlation
LagStop == 7        \* for lag in range(1, 7)

CorrVals == {RInt(1), RInt(2)}
Lags == 1..(LagStop - 1)

\* f'Unemployment_Lag_{lag}'
LagName(lag) ==
    <<"Unemployment_Lag_1", "Unemployment_Lag_2", "Unemployment_Lag_3",
      "Unemployment_Lag_4", "Unemployment_Lag_5", "Unemployment_Lag_6">>[lag]

Shift_Lead(u, k) ==
    [t \in DOMAIN u |-> IF t + k <= Len(u) THEN u[t + k] ELSE NaN]

\* Series.shift(k): row t takes the value of row t - k, the first k rows NaN
Shift(u, k) ==
    [t \in DOMAIN u |-> IF t - k >= 1 THEN u[t - k] ELSE NaN]

RECURSIVE SumProdDev(_, _, _, _)
SumProdDev(xs, mx, ys, my) ==
    IF xs = <<>> THEN RInt(0)
    ELSE RAdd(RMul(RSub(Head(xs), mx), RSub(Head(ys), my)),
              SumProdDev(Tail(xs), mx, Tail(ys), my))

\* DataFrame.corr() for two columns: Pearson's r over the rows where both are
\* present, kept as sign(r) * r^2 so that it stays rational; NaN with fewer
\* than two such rows or a constant column
Pearson(x, y) ==
    LET both == {t \in DOMAIN x : x[t] # NaN /\ y[t] # NaN}
        Keep(col) == LET idx == SelectSeq([t \in DOMAIN col |-> t], LAMBDA t : t \in both)
                     IN  [i \in DOMAIN idx |-> col[idx[i]]]
        xs  == Keep(x)
        ys  == Keep(y)
        cov == SumProdDev(xs, Mean(xs), ys, Mean(ys))
        vx  == SumSqDev(xs, Mean(xs))
        vy  == SumSqDev(ys, Mean(ys))
    IN  IF Len(xs) < 2 THEN NaN
        ELSE IF vx = RInt(0) \/ vy = RInt(0) THEN NaN
        ELSE RMul(RInt(Sign(cov)),
                  RMul(RMul(cov, cov), Rat(vx[2] * vy[2], vx[1] * vy[1])))

\* df[['CalFresh Households'] + lag columns].corr()['CalFresh Households']
CorrColumn(hh, u) ==
    <<[name |-> "CalFresh Households", r |-> Pearson(hh, hh)]>> \o
    [k \in Lags |-> [name |-> LagName(k), r |-> Pearson(hh, Shift(u, k))]]

\* Series.drop(label)
Drop(col, label) == SelectSeq(col, LAMBDA e : e.name # label)

InitCorr ==
    /\ script \in SpikeScripts
    /\ \E n \in 0..MaxCorrObs :
           /\ households \in [1..n -> CorrVals]
           /\ unemployment \in [1..n -> CorrVals]
    /\ lag_corr = <<>>
    /\ pc = "correlation"
    /\ df = <<>>
    /\ fill_method = "unset"
    /\ mom_change = <<>>
    /\ mom_zscore = <<>>
    /\ spikes = {}
    /\ images = {}
    /\ RunIdle
    /\ LoaderIdle
    /\ CleanIdle
    /\ SeasonIdle
    /\ MainIdle
    /\ RestIdle

\* analyze_correlation (food_bank_analysis.py, google_colab_script.py)
AnalyzeCorrelation ==
    /\ pc = "correlation"
    /\ images' = IF script = "food_bank"
                 THEN images \cup {"unemployment_correlation.png"} ELSE images
    /\ lag_corr' = Drop(CorrColumn(households, unemployment), "CalFresh Households")
    /\ printed' = printed \o <<"Correlation Matrix:",
                               "Lagged Correlation (Unemployment predicting Demand):">>
    /\ pc' = "correlation_done"
    /\ UNCHANGED <<coreVars, raised, returned, loaderVars, cleanVars, households,
                   fill_method, mom_change, mom_zscore, spikes, seasonVars,
                   unemployment, mainVars, restVars>>

NextCorr == AnalyzeCorrelation

SpecCorr == InitCorr /\ [][NextCorr]_vars

\* the rows analyze_correlation is said to pair at lag k: demand at row t with
\* unemployment at row t - k
LagPairs(hh, u, k) ==
    [i \in 1..(IF Len(hh) > k THEN Len(hh) - k ELSE 0) |->
        [demand |-> hh[i + k], unemp |-> u[i]]]

\* Pearson's r of the pairs from their sums, as sign(r) * r^2:
\* r = (n*Sxy - Sx*Sy) / sqrt((n*Sxx - Sx^2) * (n*Syy - Sy^2))
PearsonOfPairs(ps) ==
    LET n   == RInt(Len(ps))
        Sx  == SumSeq([i \in DOMAIN ps |-> ps[i].demand])
        Sy  == SumSeq([i \in DOMAIN ps |-> ps[i].unemp])
        Sxy == SumSeq([i \in DOMAIN ps |-> RMul(ps[i].demand, ps[i].unemp)])
        Sxx == SumSeq([i \in DOMAIN ps |-> RMul(ps[i].demand, ps[i].demand)])
        Syy == SumSeq([i \in DOMAIN ps |-> RMul(ps[i].unemp, ps[i].unemp)])
        num == RSub(RMul(n, Sxy), RMul(Sx, Sy))
        dx  == RSub(RMul(n, Sxx), RMul(Sx, Sx))
        dy  == RSub(RMul(n, Syy), RMul(Sy, Sy))
    IN  IF Len(ps) < 2 \/ dx = RInt(0) \/ dy = RInt(0) THEN NaN
        ELSE RMul(RInt(Sign(num)),
                  RMul(RMul(num, num), Rat(dx[2] * dy[2], dx[1] * dy[1])))

\* C20: the lagged output has exactly six coefficients, one per lag k = 1..6 in
\* that order; the coefficient of lag k correlates demand at row t with
\* unemployment at row t - k; demand's correlation with itself is not in it.
C20_SixLaggedCoefficients ==
    pc = "correlation_done" =>
        /\ Len(lag_corr) = 6
        /\ \A k \in 1..6 :
               /\ lag_corr[k].name = LagName(k)
               /\ lag_corr[k].r = PearsonOfPairs(LagPairs(households, unemployment, k))
        /\ \A i \in DOMAIN lag_corr : lag_corr[i].name # "CalFresh Households"

C20_Witness ==
    /\ pc = "correlation_done"
    /\ Len(households) = 5
    /\ lag_corr[1].r = Rat(1, 9)
    /\ lag_corr[2].r = Rat(1, 4)
    /\ lag_corr[3].r = RInt(1)
    /\ lag_corr[6].r = NaN

\* ------------------------------------------------------- scripts: main flow
StatewideScripts == {"food_bank", "prediction", "colab"}
FileScripts == {"contra_costa", "advanced", "find_examples", "food_desert_map"}
AllScripts == StatewideScripts \cup FileScripts

\* main's filenames list, in the order it is searched
filenames == <<"Monthly.csv", "Master.xlsx", "data.csv">>

\* One call of main (or of the __main__ block): the function, the input file it
\* needs, how much of its body stands inside try/except Exception ("all",
\* "part", "none"), and the images it saves, in order.
Step(fn, input, try, imgs) == [fn |-> fn, input |-> input, try |-> try, images |-> imgs]

Steps(s) ==
    CASE s = "contra_costa" ->
           << Step("analyze_neighborhood_gaps", "mrfei", "all",
                   <<"food_desert_ranking.png", "food_deserts_matrix.png">>),
              Step("analyze_demand_spikes_monthly", "snap_monthly", "all",
                   <<"seasonal_pulse.png", "household_complexity.png",
                     "cost_of_hunger.png">>),
              Step("analyze_purchasing_power", "snap_annual", "all",
                   <<"modern_crisis_history.png", "purchasing_power_gap.png">>) >>
      [] s = "advanced" ->
           << Step("analyze_recession_lag", "statewide", "all",
                   <<"../png/recession_lag.png">>),
              Step("analyze_heat_calendar", "snap_monthly", "all",
                   <<"../png/seasonal_heatmap.png">>),
              Step("analyze_swamp_density", "mrfei", "all",
                   <<"../png/food_swamp_density.png">>) >>
      [] s = "find_examples" ->
           << Step("find_examples", "mrfei", "none", <<>>) >>
      [] s = "food_desert_map" ->
           << Step("generate_map", "map_image", "none",
                   <<"../png/food_deserts_mini_map.png">>) >>
      [] s = "food_bank" ->
           << Step("load_and_clean_data", "dataset", "all", <<>>),
              Step("plot_statewide_trend", "dataset", "none", <<"statewide_trend.png">>),
              Step("analyze_spikes", "dataset", "none", <<"demand_spikes.png">>),
              Step("investigate_anomaly", "dataset", "none", <<>>),
              Step("analyze_seasonality", "dataset", "part",
                   <<"seasonality_decomposition.png">>),
              Step("analyze_correlation", "dataset", "none",
                   <<"unemployment_correlation.png">>) >>
      [] s = "colab" ->
           << Step("load_and_clean_data", "dataset", "all", <<>>),
              Step("plot_statewide_trend", "dataset", "none", <<>>),
              Step("analyze_spikes", "dataset", "none", <<>>),
              Step("investigate_anomaly", "dataset", "none", <<>>),
              Step("analyze_seasonality", "dataset", "part", <<>>),
              Step("analyze_correlation", "dataset", "none", <<>>),
              Step("run_predictions", "dataset", "part", <<>>) >>
      [] s = "prediction" ->
           << Step("load_data", "dataset", "none", <<>>),
              Step("run_models", "dataset", "part",
                   <<"model_forecast_comparison.png">>) >>

\* the input files a script looks for
InputsOf(s) ==
    IF s \in StatewideScripts THEN Range(filenames)
    ELSE {Steps(s)[i].input : i \in DOMAIN Steps(s)}

Call(fn, outcome) == [fn |-> fn, outcome |-> outcome]

InitMain ==
    /\ script \in AllScripts
    /\ files \in SUBSET InputsOf(script)
    /\ invoked = <<>>
    /\ exit_code = "running"
    /\ images = {}
    /\ pc = IF script \in StatewideScripts THEN "locate" ELSE "run"
    /\ df = <<>>
    /\ households = <<>>
    /\ fill_method = "unset"
    /\ mom_change = <<>>
    /\ mom_zscore = <<>>
    /\ spikes = {}
    /\ RunIdle
    /\ LoaderIdle
    /\ CleanIdle
    /\ SeasonIdle
    /\ CorrIdle
    /\ RestIdle

mainFrame == <<rows, df, stages, seriesVars, baselineVars, hw, sarima, finalVars,
               results, returned, loaderVars, cleanVars, households, fill_method,
               mom_change, mom_zscore, spikes, seasonVars, corrVars, restVars,
               script>>

\* main of the three Statewide scripts up to the call of the loader: the first
\* of the filenames that exists; if none exists food_bank_analysis.py and
\* prediction.py exit with status 1, google_colab_script.py asks for an upload
\* and exits with status 1 outside Colab or when nothing is uploaded
LocateDataset ==
    /\ pc = "locate"
    /\ IF \E i \in DOMAIN filenames : filenames[i] \in files
       THEN /\ pc' = "run"
            /\ files' = files \cup {"dataset"}
            /\ UNCHANGED <<printed, exit_code>>
       ELSE IF script = "colab"
       THEN \E env \in {"not_colab", "nothing_uploaded", "uploaded"} :
                IF env = "uploaded"
                THEN /\ pc' = "run"
                     /\ files' = files \cup {"dataset"}
                     /\ printed' = printed \o <<"Dataset not found in current directory.",
                                                "Uploaded">>
                     /\ UNCHANGED exit_code
                ELSE /\ pc' = "exited"
                     /\ exit_code' = "1"
                     /\ printed' = printed \o
                            <<"Dataset not found in current directory.",
                              IF env = "not_colab" THEN "Not running in Google Colab?"
                              ELSE "No file selected.">>
                     /\ UNCHANGED files
       ELSE /\ pc' = "exited"
            /\ exit_code' = "1"
            /\ printed' = Append(printed, "DATASET NOT FOUND.")
            /\ UNCHANGED files
    /\ UNCHANGED <<mainFrame, invoked, images, raised>>

NextStep == Steps(script)[Len(invoked) + 1]
HasNextStep == pc = "run" /\ Len(invoked) < Len(Steps(script))

CallMissing_Exits ==
    /\ HasNextStep
    /\ NextStep.input \notin files
    /\ printed' = Append(printed, "File not found")
    /\ invoked' = Append(invoked, Call(NextStep.fn, "missing"))
    /\ exit_code' = "1"
    /\ pc' = "exited"
    /\ UNCHANGED <<mainFrame, files, images, raised>>

\* a function whose input file does not exist: it prints and returns
CallMissing ==
    /\ HasNextStep
    /\ NextStep.input \notin files
    /\ printed' = Append(printed, "File not found")
    /\ invoked' = Append(invoked, Call(NextStep.fn, "missing"))
    /\ UNCHANGED <<mainFrame, files, images, raised, exit_code, pc>>

\* a function that runs to its end, every image saved
CallOk ==
    /\ HasNextStep
    /\ NextStep.input \in files
    /\ invoked' = Append(invoked, Call(NextStep.fn, "ok"))
    /\ images' = images \cup Range(NextStep.images)
    /\ UNCHANGED <<mainFrame, files, printed, raised, exit_code, pc>>

\* a failure inside the function's try: printed, the function returns; a
\* loader that returns None makes main skip every analysis
CallCaught ==
    /\ HasNextStep
    /\ NextStep.input \in files
    /\ NextStep.try \in {"all", "part"}
    /\ invoked' = Append(invoked, Call(NextStep.fn, "caught"))
    /\ \E k \in 0..Len(NextStep.images) :
           images' = images \cup Range(SubSeq(NextStep.images, 1, k))
    /\ printed' = Append(printed, "Error")
    /\ pc' = IF NextStep.fn = "load_and_clean_data" THEN "skip" ELSE pc
    /\ UNCHANGED <<mainFrame, files, raised, exit_code>>

\* a failure outside any try: the exception leaves main, Python prints the
\* traceback and exits with status 1
CallRaised ==
    /\ HasNextStep
    /\ NextStep.input \in files
    /\ NextStep.try \in {"part", "none"}
    /\ invoked' = Append(invoked, Call(NextStep.fn, "raised"))
    /\ \E k \in 0..Len(NextStep.images) :
           images' = images \cup Range(SubSeq(NextStep.images, 1, k))
    /\ raised' = NextStep.fn
    /\ exit_code' = "1"
    /\ pc' = "exited"
    /\ UNCHANGED <<mainFrame, files, printed>>

\* main returns: the script ends with status 0
Finish ==
    /\ \/ pc = "run" /\ Len(invoked) = Len(Steps(script))
       \/ pc = "skip"
    /\ exit_code' = "0"
    /\ pc' = "exited"
    /\ UNCHANGED <<mainFrame, files, invoked, images, printed, raised>>

NextMain ==
    LocateDataset \/ CallMissing \/ CallOk \/ CallCaught \/ CallRaised \/ Finish

SpecMain == InitMain /\ [][NextMain]_vars


\* ---------------------------------------------------- scripts: missing input
MissingCalls == {i \in DOMAIN invoked : invoked[i].outcome = "missing"}
ImagesOf(i) == Range(Steps(script)[i].images)
DatasetLocated == \E i \in DOMAIN filenames : filenames[i] \in files

\* every call made so far is the next one of the script's list, and a call
\* whose input file is missing printed its message and saved no image
MissingFileCallsReturn ==
    /\ Len(invoked) <= Len(Steps(script))
    /\ \A i \in DOMAIN invoked :
           /\ invoked[i].fn = Steps(script)[i].fn
           /\ Steps(script)[i].input \notin files
                  => /\ invoked[i].outcome = "missing"
                     /\ ImagesOf(i) \cap images = {}
    /\ Cardinality(MissingCalls) = Len(SelectSeq(printed, LAMBDA m : m = "File not found"))

\* the process ends early only through an exception that nothing catches
EndsOnlyByException(scripts) ==
    script \in scripts =>
        /\ exit_code = "1" => raised # "none"
        /\ pc = "exited" /\ raised = "none" /\ MissingCalls # {}
               => exit_code = "0" /\ Len(invoked) = Len(Steps(script))

\* C13 as stated: in every script a missing input file makes the affected
\* function print and return without any output file, and the process goes on
\* to the remaining functions instead of being terminated.
C13_MissingFileNeverTerminates ==
    /\ MissingFileCallsReturn
    /\ EndsOnlyByException(AllScripts)

\* C13, amended: in contra_costa_analysis.py, advanced_analysis.py,
\* find_examples.py and create_food_desert_map.py a function whose input file
\* is missing prints and returns without any output file and the remaining
\* functions are still called in order; the three Statewide scripts instead
\* print a message and exit with status 1, before any analysis function is
\* called, when none of the dataset's filenames exists (google_colab_script.py
\* unless a file is uploaded).
C13_MissingFileHandling ==
    /\ MissingFileCallsReturn
    /\ EndsOnlyByException(FileScripts)
    /\ script \in StatewideScripts =>
           /\ MissingCalls = {}
           /\ pc # "locate" /\ ~DatasetLocated /\ "dataset" \notin files
                  => /\ pc = "exited"
                     /\ exit_code = "1"
                     /\ raised = "none"
                     /\ invoked = <<>>
                     /\ images = {}
                     /\ Len(printed) >= 1
           /\ pc # "locate" /\ (DatasetLocated \/ "dataset" \in files)
                  => (exit_code = "1" => raised # "none")

C13_Witness ==
    /\ script = "contra_costa"
    /\ pc = "exited"
    /\ exit_code = "0"
    /\ Len(invoked) = 3
    /\ invoked[2] = Call("analyze_demand_spikes_monthly", "missing")
    /\ invoked[3] = Call("analyze_purchasing_power", "ok")
    /\ "purchasing_power_gap.png" \in images
    /\ "seasonal_pulse.png" \notin images

\* ------------------------------------------------------ tract display name
MaxIdLen == 11   \* digits of a tract ID

IdDigits == {"3", "5"}
\* '6013355112': 6 = CA, 013 = Contra Costa, 355112 = tract 3551.12
ExampleId == <<"6", "0", "1", "3", "3", "5", "5", "1", "1", "2">>
TractIds ==
    {ExampleId} \cup UNION {[1..n -> IdDigits] : n \in 0..MaxIdLen}

\* tract_id_raw[5:], tract_id_raw[4:] or tract_id_raw[-6:]
TractIdCode(id) ==
    IF Len(id) = 10 THEN IlocFrom(id, 5)
    ELSE IF Len(id) = 9 THEN IlocFrom(id, 4)
    ELSE IlocFrom(id, -6)

\* f"Census Tract {tract_id_code[:-2]}.{tract_id_code[-2:]}"
TractName(id) ==
    <<"Census Tract ">> \o IlocUpTo(TractIdCode(id), -2) \o <<".">>
        \o IlocFrom(TractIdCode(id), -2)

InitTract ==
    /\ tract_id_raw \in TractIds
    /\ tract_name = <<>>
    /\ pc = "name"
    /\ cc_df = <<>>
    /\ worst_15 = <<>>
    /\ recommendations = <<>>
    /\ categories = <<>>
    /\ HeaderIdle
    /\ PairIdle
    /\ CoreIdle
    /\ LoaderIdle
    /\ CleanIdle
    /\ SpikesIdle
    /\ SeasonIdle
    /\ CorrIdle
    /\ MainIdle

\* one pass of the diagnosis loop, up to tract_name
NameTract ==
    /\ pc = "name"
    /\ tract_name' = TractName(tract_id_raw)
    /\ pc' = "named"
    /\ UNCHANGED <<coreVars, printed, raised, returned, loaderVars, cleanVars,
                   spikeVars, seasonVars, corrVars, mainVars, cc_df, worst_15,
                   recommendations, categories, tract_id_raw, headerVars, pairVars>>

NextTract == NameTract

SpecTract == InitTract /\ [][NextTract]_vars

\* the last six digits of an ID, or all of it if it has fewer
LastSix(id) == SubSeq(id, IF Len(id) > 6 THEN Len(id) - 5 ELSE 1, Len(id))

\* C24: the display name is 'Census Tract ' followed by the first four of the
\* ID's last six digits, a point, and the final two digits ('6013355112' gives
\* 'Census Tract 3551.12'); whatever the ID's length, four digits stand before
\* the point and two after it.
C24_LastSixDigits ==
    pc = "named" =>
        /\ Len(tract_id_raw) = 10 =>
               tract_name = <<"Census Tract ">> \o SubSeq(LastSix(tract_id_raw), 1, 4)
                                \o <<".">> \o SubSeq(LastSix(tract_id_raw), 5, 6)
        /\ tract_id_raw = ExampleId =>
               tract_name = <<"Census Tract ", "3", "5", "5", "1", ".", "1", "2">>
        /\ \E k \in DOMAIN tract_name :
               /\ tract_name[k] = "."
               /\ k = 6
               /\ Len(tract_name) = 8

\* ---------------------------------------------------- neighborhood gaps
MaxTracts == 2   \* rows of the mRFEI file

HeadRows == 15   \* worst_15 = ... .head(15)

\* float comparisons: any comparison with NaN is False
FEq(x, y) == IsNum(x) /\ IsNum(y) /\ x = y
FLt(x, y) == IsNum(x) /\ IsNum(y) /\ RGt(y, x)

Estimates == {RInt(9), RInt(10), NaN}
Denominators == {RInt(0), RInt(2), RInt(3), NaN}
Places == {<<"Contra Costa", "CT">>, <<"Contra Costa", "CO">>, <<"Alameda", "CT">>}

MrfeiRows ==
    {[county_name |-> p[1], geotype |-> p[2], geotypevalue |-> ExampleId,
      estimate |-> e, denominator |-> d] :
        p \in Places, e \in Estimates, d \in Denominators}
MrfeiTables == UNION {[1..n -> MrfeiRows] : n \in 0..MaxTracts}

\* df[(df['county_name'] == 'Contra Costa') & (df['geotype'] == 'CT')]
ContraCostaTracts(frame) ==
    SelectSeq(frame, LAMBDA r : r.county_name = "Contra Costa" /\ r.geotype = "CT")

\* sort_values('estimate', ascending=True): missing estimates last, rows of
\* equal estimate in any order (unstable quicksort)
SortByEstimate(frame) ==
    {g \in [DOMAIN frame -> Range(frame)] :
        /\ SameRows(g, frame)
        /\ \A i, j \in DOMAIN g :
               i < j => /\ ~FLt(g[j].estimate, g[i].estimate)
                        /\ ~IsNum(g[i].estimate) => ~IsNum(g[j].estimate)}

\* .head(n)
HeadOf(frame, n) == SubSeq(frame, 1, IF Len(frame) < n THEN Len(frame) ELSE n)

\* the decision tree of the diagnosis loop
Diagnosis(row) ==
    IF FEq(row.denominator, RInt(0)) THEN "FOOD DESERT (No stores)"
    ELSE IF FLt(row.denominator, RInt(3)) THEN "SCARCE RESOURCES (Few stores)"
    ELSE "FOOD SWAMP (Unhealthy Access)"

Recommendation(row) ==
    [Tract |-> TractName(row.geotypevalue), Diagnosis |-> Diagnosis(row),
     Score |-> row.estimate, Stores |-> row.denominator]

categorize_SwampFirst(row) ==
    IF FLt(row.estimate, RInt(10)) THEN "Swamp (Unhealthy)"
    ELSE IF FEq(row.denominator, RInt(0)) THEN "Desert (0 Stores)"
    ELSE IF FLt(row.denominator, RInt(3)) THEN "Scarce (<3 Stores)"
    ELSE "Healthy Access"

categorize(row) ==
    IF FEq(row.denominator, RInt(0)) THEN "Desert (0 Stores)"
    ELSE IF FLt(row.denominator, RInt(3)) THEN "Scarce (<3 Stores)"
    ELSE IF FLt(row.estimate, RInt(10)) THEN "Swamp (Unhealthy)"
    ELSE "Healthy Access"

InitGaps ==
    /\ rows \in MrfeiTables
    /\ pc = "gaps"
    /\ cc_df = <<>>
    /\ worst_15 = <<>>
    /\ recommendations = <<>>
    /\ categories = <<>>
    /\ tract_id_raw = <<>>
    /\ tract_name = <<>>
    /\ images = {}
    /\ printed = <<>>
    /\ raised = "none"
    /\ returned = NoReturn
    /\ script = "contra_costa"
    /\ df = <<>>
    /\ stages = <<>>
    /\ model_rows = <<>>
    /\ model_df = <<>>
    /\ train = <<>>
    /\ test = <<>>
    /\ y_pred_naive = <<>>
    /\ y_pred_snaive = <<>>
    /\ snaive_src = <<>>
    /\ hw = "none"
    /\ sarima = "none"
    /\ final = "none"
    /\ final_input = <<>>
    /\ future_forecast = <<>>
    /\ results = <<>>
    /\ households = <<>>
    /\ fill_method = "unset"
    /\ mom_change = <<>>
    /\ mom_zscore = <<>>
    /\ spikes = {}
    /\ HeaderIdle
    /\ PairIdle
    /\ LoaderIdle
    /\ CleanIdle
    /\ SeasonIdle
    /\ CorrIdle
    /\ MainIdle

gapsFrame == <<script, rows, df, stages, seriesVars, baselineVars, hw, sarima,
               finalVars, results, raised, returned, loaderVars, cleanVars,
               households, fill_method, mom_change, mom_zscore, spikes,
               seasonVars, corrVars, mainVars, tract_id_raw, tract_name,
               headerVars, pairVars>>

\* analyze_neighborhood_gaps, steps 1 to 4 and the bar chart: filter, rank,
\* diagnose each of the 15 rows of lowest estimate, save the ranking
RankAndDiagnose ==
    /\ pc = "gaps"
    /\ cc_df' = ContraCostaTracts(rows)
    /\ \E sorted \in SortByEstimate(cc_df') :
           worst_15' = HeadOf(sorted, HeadRows)
    /\ recommendations' = [i \in DOMAIN worst_15' |-> Recommendation(worst_15'[i])]
    /\ \E plot \in {"ok", "failed"} :
           IF plot = "ok"
           THEN /\ images' = images \cup {"food_desert_ranking.png"}
                /\ printed' = Append(printed, "VISUAL GENERATED: 'food_desert_ranking.png'")
                /\ pc' = "matrix"
           ELSE /\ images' = images
                /\ printed' = Append(printed, "Error analyzing MRFEI")
                /\ pc' = "gaps_done"
    /\ UNCHANGED <<gapsFrame, categories>>

\* the scatter plot: categorize applied to every row of cc_df
ServiceGapMatrix ==
    /\ pc = "matrix"
    /\ \E plot \in {"ok", "failed"} :
           IF plot = "ok"
           THEN /\ categories' = [i \in DOMAIN cc_df |-> categorize(cc_df[i])]
                /\ images' = images \cup {"food_deserts_matrix.png"}
                /\ printed' = Append(printed, "VISUAL GENERATED: 'food_deserts_matrix.png'")
           ELSE /\ \/ categories' = categories
                   \/ categories' = [i \in DOMAIN cc_df |-> categorize(cc_df[i])]
                /\ images' = images
                /\ printed' = Append(printed, "Error analyzing MRFEI")
    /\ pc' = "gaps_done"
    /\ UNCHANGED <<gapsFrame, cc_df, worst_15, recommendations>>

NextGaps == RankAndDiagnose \/ ServiceGapMatrix

SpecGaps == InitGaps /\ [][NextGaps]_vars


\* a >= b on floats
FGe(x, y) == IsNum(x) /\ IsNum(y) /\ ~RGt(y, x)

Labels == {"Desert (0 Stores)", "Scarce (<3 Stores)", "Swamp (Unhealthy)",
           "Healthy Access"}

Categorized == pc = "gaps_done" /\ Len(categories) = Len(cc_df)

\* two rows of equal store count and score carry the same label
SameValuesSameLabel ==
    \A i, j \in DOMAIN cc_df :
        /\ cc_df[i].denominator = cc_df[j].denominator
        /\ cc_df[i].estimate = cc_df[j].estimate
        => categories[i] = categories[j]

\* C21 as stated: every row has one of the four labels; Desert iff the store
\* count is 0, Scarce iff it is non-zero and below 3, Swamp iff it is at least 3
\* and the score is below 10, Healthy otherwise; equal values, equal label.
C21_FourLabelsByCutoffs ==
    Categorized =>
        /\ \A i \in DOMAIN cc_df :
               LET d == cc_df[i].denominator
                   e == cc_df[i].estimate
                   c == categories[i]
               IN  /\ c \in Labels
                   /\ c = "Desert (0 Stores)" <=> FEq(d, RInt(0))
                   /\ c = "Scarce (<3 Stores)" <=> ~FEq(d, RInt(0)) /\ FLt(d, RInt(3))
                   /\ c = "Swamp (Unhealthy)" <=> FGe(d, RInt(3)) /\ FLt(e, RInt(10))
        /\ SameValuesSameLabel

\* C21, amended: as stated for rows whose store count is present; a row whose
\* store count is missing is never Desert or Scarce: it is Swamp if its score
\* is below 10 and Healthy otherwise. A missing score is never below 10.
C21_CutoffsWithMissing ==
    Categorized =>
        /\ \A i \in DOMAIN cc_df :
               LET d == cc_df[i].denominator
                   e == cc_df[i].estimate
                   c == categories[i]
               IN  /\ c \in Labels
                   /\ c = "Desert (0 Stores)" <=> FEq(d, RInt(0))
                   /\ c = "Scarce (<3 Stores)" <=> ~FEq(d, RInt(0)) /\ FLt(d, RInt(3))
                   /\ c = "Swamp (Unhealthy)" <=>
                          (FGe(d, RInt(3)) \/ ~IsNum(d)) /\ FLt(e, RInt(10))
        /\ SameValuesSameLabel

C21_Witness ==
    /\ Categorized
    /\ Len(cc_df) = 2
    /\ cc_df[1].denominator = NaN /\ cc_df[1].estimate = RInt(9)
    /\ categories[1] = "Swamp (Unhealthy)"
    /\ cc_df[2].denominator = RInt(3) /\ cc_df[2].estimate = RInt(10)
    /\ categories[2] = "Healthy Access"


\* the category a diagnosis of the printed table names
CategoryNamed(diagnosis) ==
    CASE diagnosis = "FOOD DESERT (No stores)" -> "Desert (0 Stores)"
      [] diagnosis = "SCARCE RESOURCES (Few stores)" -> "Scarce (<3 Stores)"
      [] diagnosis = "FOOD SWAMP (Unhealthy Access)" -> "Swamp (Unhealthy)"

\* C28: for each of the 15 rows of lowest score the diagnosis of the printed
\* table names the category that categorize gives the same row, so no tract is
\* diagnosed as a food swamp while plotted as 'Healthy Access'.
C28_ClassifiersAgree ==
    Categorized =>
        \A i \in DOMAIN worst_15 : \A j \in DOMAIN cc_df :
            cc_df[j] = worst_15[i]
                => CategoryNamed(recommendations[i].Diagnosis) = categories[j]

\* on rows of fewer than 3 stores the two classifiers do agree
C28_AgreeBelowThree ==
    Categorized =>
        \A i \in DOMAIN worst_15 : \A j \in DOMAIN cc_df :
            cc_df[j] = worst_15[i] /\ FLt(cc_df[j].denominator, RInt(3))
                => CategoryNamed(recommendations[i].Diagnosis) = categories[j]


\* ------------------------------------------------- scoring a zero holdout
ZeroInHoldout == \E i \in DOMAIN test : test[i].v = RInt(0)

\* the models scored so far, by the position run_models has reached
ScoredSoFar ==
    (IF pc \in {"snaive", "hw", "sarima"} \/ ComparisonDone
     THEN <<"Naive (Last Value)">> ELSE <<>>)
    \o (IF pc \in {"hw", "sarima"} \/ ComparisonDone
        THEN <<"Seasonal Naive">> ELSE <<>>)
    \o (IF hw = "ok" THEN <<"Holt-Winters">> ELSE <<>>)
    \o (IF sarima = "ok" THEN <<"SARIMA">> ELSE <<>>)

\* the mean of |true - predicted| over the holdout, by its sum
AbsErrorSum(pred) ==
    SumSeq([i \in DOMAIN test |-> RAbs(RSub(test[i].v, pred[i]))])

C29_BaselinesAlwaysRun ==
    df # <<>> =>
        /\ raised \in {"none", "final"}
        /\ SplitDone => train # <<>>
        /\ pc \in {"hw", "sarima"} \/ ComparisonDone
               => /\ Len(y_pred_naive) = Len(test)
                  /\ Len(y_pred_snaive) = Len(test)

\* the same for the series that are longer than the holdout and have one row
\* per date
C29_LongerThanHoldout ==
    Len(model_df) > TestMonths =>
        /\ raised \in {"none", "final"}
        /\ SplitDone => train # <<>>
        /\ pc \in {"hw", "sarima"} \/ ComparisonDone
               => /\ Len(y_pred_naive) = Len(test)
                  /\ Len(y_pred_snaive) = Len(test)


\* ------------------------------------------- forecaster: long monthly input
MaxMonths == 20   \* months from the first to the last row of the frame

\* which months between the first and the last have a row
Spacings == {"monthly", "alternate", "ends"}
\* household counts: the same every month, or higher from the break date on
Levels == {"flat", "shift"}

HasRow(spacing, m, n) ==
    \/ m = 0
    \/ m = n - 1
    \/ spacing = "monthly"
    \/ spacing = "alternate" /\ m % 2 = 0

\* a frame spanning the months 0 .. n-1, sorted by Date, one row per date
SpanFrame(n, spacing, level) ==
    LET months == Ascending({m \in 0..(n - 1) : HasRow(spacing, m, n)})
    IN  [i \in DOMAIN months |->
            [Date |-> months[i],
             HH   |-> IF level = "shift" /\ months[i] >= BreakDate THEN 2 ELSE 1]]

InitMonthly ==
    /\ script \in Scripts
    /\ \E n \in 0..MaxMonths : \E spacing \in Spacings : \E level \in Levels :
           df = SpanFrame(n, spacing, level)
    /\ pc = "break"
    /\ rows = <<>>
    /\ stages = <<>>
    /\ model_rows = <<>>
    /\ model_df = <<>>
    /\ train = <<>>
    /\ test = <<>>
    /\ y_pred_naive = <<>>
    /\ y_pred_snaive = <<>>
    /\ snaive_src = <<>>
    /\ hw = "none"
    /\ sarima = "none"
    /\ final = "none"
    /\ final_input = <<>>
    /\ future_forecast = <<>>
    /\ results = <<>>
    /\ printed = <<>>
    /\ raised = "none"
    /\ returned = NoReturn
    /\ ExtIdle

SpecMonthly == InitMonthly /\ [][Next]_vars

\* holdout positions whose prediction is the fallback, the last history value
FallbackUsed == {i \in DOMAIN test : snaive_src[i] = Last(train).Date}

\* periods of the modelling series before a date
PeriodsBefore(d) == Cardinality({j \in DOMAIN model_df : model_df[j].Date < d})

\* C30: the modelling series is gap-free monthly before the split, so the
\* Seasonal-naive fallback is used for a holdout date exactly when the series
\* has fewer than 12 periods before that date: never when the series has 18
\* periods or more, and for exactly the first min(6, 18 - length) holdout dates
\* when it has between 7 and 17.
C30_FallbackByLength ==
    /\ \A j \in DOMAIN model_df : j > 1 => model_df[j].Date = model_df[j - 1].Date + 1
    /\ pc \in {"hw", "sarima"} \/ ComparisonDone =>
           LET n == Len(model_df)
           IN  /\ \A i \in DOMAIN test :
                      i \in FallbackUsed <=> PeriodsBefore(test[i].Date) < SeasonLag
               /\ n >= 18 => FallbackUsed = {}
               /\ n \in 7..17 => FallbackUsed = 1..Min(TestMonths, 18 - n)

C30_Witness ==
    /\ pc = "hw"
    /\ Len(model_df) = 15
    /\ Len(df) = 9
    /\ FallbackUsed = {1, 2, 3}
    /\ snaive_src[4] = model_df[1].Date


\* ------------------------------------------------------------ header scan
MaxLines == 22    \* lines of a SNAP file

ScanLimit == 20   \* for i, line in enumerate(lines[:20])

\* the functions that look for the header row, and the call of main each is
ScanningFunctions == {"demand_spikes_monthly", "purchasing_power", "heat_calendar"}
CallOf(fn) ==
    CASE fn = "demand_spikes_monthly" -> Steps("contra_costa")[2]
      [] fn = "purchasing_power" -> Steps("contra_costa")[3]
      [] fn = "heat_calendar" -> Steps("advanced")[2]

\* files as the scan sees them: per line, whether it holds the marker; at most
\* two lines do
MarkedFiles ==
    {[i \in 1..n |-> i \in M] :
        n \in 0..MaxLines, M \in {S \in SUBSET (1..MaxLines) : Cardinality(S) <= 2}}

\* the scan going through the whole file
HeaderRow_WholeFile(ls) ==
    LET hits == {i \in DOMAIN ls : ls[i]}
    IN  IF hits = {} THEN -1
        ELSE (CHOOSE i \in hits : \A j \in hits : i <= j) - 1

\* header_row = -1; for i, line in enumerate(lines[:20]): if marker in line:
\* header_row = i; break
HeaderRow(ls) ==
    LET hits == {i \in DOMAIN IlocUpTo(ls, ScanLimit) : ls[i]}
    IN  IF hits = {} THEN -1
        ELSE (CHOOSE i \in hits : \A j \in hits : i <= j) - 1

InitHeader ==
    /\ loader \in ScanningFunctions
    /\ lines \in MarkedFiles
    /\ header_row = -1
    /\ pc = "scan"
    /\ images = {}
    /\ columns = {}
    /\ raw = <<>>
    /\ missing_cols = <<>>
    /\ df_clean = <<>>
    /\ households = <<>>
    /\ fill_method = "unset"
    /\ mom_change = <<>>
    /\ mom_zscore = <<>>
    /\ spikes = {}
    /\ CoreIdle
    /\ CleanIdle
    /\ SeasonIdle
    /\ CorrIdle
    /\ MainIdle
    /\ GapsIdle
    /\ PairIdle

headerFrame == <<coreVars, returned, loader, columns, raw, missing_cols, df_clean,
                 cleanVars, households, fill_method, mom_change, mom_zscore,
                 spikes, seasonVars, corrVars, mainVars, gapsVars, pairVars, lines>>

\* with open(filepath) as f: lines = f.readlines(); the scan; the two
\* functions of contra_costa_analysis.py return when no header row is found,
\* analyze_heat_calendar goes on to read_csv
ScanHeader ==
    /\ pc = "scan"
    /\ header_row' = HeaderRow(lines)
    /\ pc' = IF header_row' = -1 /\ loader # "heat_calendar" THEN "header_done"
             ELSE "read"
    /\ UNCHANGED <<headerFrame, images, printed, raised>>

\* pd.read_csv(filepath, header=header_row) and the rest of the function, all
\* of it inside try / except Exception: read_csv raises ValueError on a
\* negative header; any other step may fail after some of the images
ReadAndPlot ==
    /\ pc = "read"
    /\ \/ /\ header_row >= 0
          /\ images' = images \cup Range(CallOf(loader).images)
          /\ UNCHANGED printed
       \/ /\ \E k \in 0..Len(CallOf(loader).images) :
                 /\ header_row = -1 => k = 0
                 /\ images' = images \cup Range(SubSeq(CallOf(loader).images, 1, k))
          /\ printed' = Append(printed, "Failed")
    /\ pc' = "header_done"
    /\ UNCHANGED <<headerFrame, header_row, raised>>

NextHeader == ScanHeader \/ ReadAndPlot

SpecHeader == InitHeader /\ [][NextHeader]_vars

\* C25: the header row is the index of the first line holding the marker among
\* the first 20 lines of the file only; a marker that occurs only at line index
\* 20 or later counts as not found, and when none is found the function writes
\* no image file and ends without an unhandled failure.
C25_FirstTwentyLines ==
    /\ raised = "none"
    /\ pc # "scan" =>
           /\ header_row = -1 <=>
                  \A i \in DOMAIN lines : lines[i] => i - 1 >= 20
           /\ header_row # -1 =>
                  /\ header_row \in 0..19
                  /\ lines[header_row + 1]
                  /\ \A i \in 1..header_row : ~lines[i]
           /\ header_row = -1 => images = {}

C25_Witness ==
    /\ pc = "header_done"
    /\ Len(lines) = 22
    /\ lines[21]
    /\ \A i \in 1..20 : ~lines[i]
    /\ header_row = -1
    /\ loader = "heat_calendar"
    /\ images = {}
    /\ printed = <<"Failed">>


\* ------------------------------------------------ loaders: two of a kind
\* what the other of the two loaders makes of the file the state's loader read
OtherLoader == IF loader = "prediction" THEN "food_bank" ELSE "prediction"
OtherSucceeds == MissingCols(OtherLoader, columns) = <<>>
OtherRowsKept ==
    DropNa(ParseRows(OtherLoader, raw),
           IF OtherLoader = "prediction" THEN {"Date", "CalFresh Households"}
           ELSE {"Date"})

LoaderSucceeded == pc = "loaded" /\ returned.kind # "None"

\* C23: load_data of prediction.py cleans as load_and_clean_data of
\* food_bank_analysis.py does: on every input table both succeed or both fail,
\* and when they succeed they keep the same rows with the same cleaned values.
C23_LoadersAgree ==
    (pc \in {"loaded", "raised"} /\ loader \in {"prediction", "food_bank"}) =>
        /\ LoaderSucceeded <=> OtherSucceeds
        /\ LoaderSucceeded => df_clean = OtherRowsKept

\* on a file with every column and a number in every household cell of a
\* dated row the two loaders do keep the same rows
C23_AgreeOnCompleteRows ==
    (/\ pc \in {"loaded", "raised"}
     /\ loader \in {"prediction", "food_bank"}
     /\ columns = AllColumns
     /\ \A i \in DOMAIN raw :
            IsNum(CleanNumeric("prediction", raw[i].HH))) =>
        /\ LoaderSucceeded
        /\ df_clean = OtherRowsKept


\* ------------------------------------------------- two runs side by side
\* Two processes, each running one of the scripts from its first statement,
\* started in the same directories. Every savefig call opens its fixed path
\* for writing, which truncates whatever is there, writes the image and closes
\* the file; nothing in the scripts makes one process wait for another.
Runs == {1, 2}
Other(r) == 3 - r

ImagesOfScript(s) == UNION {Range(Steps(s)[i].images) : i \in DOMAIN Steps(s)}
AllImages == UNION {ImagesOfScript(s) : s \in AllScripts}

\* a file on disk is the set of runs whose bytes it holds: none of the two for
\* a file left by an earlier run, both for a mixture of two runs' writes
LeftBehind == {}

InitPair ==
    /\ procs \in [Runs -> {[script |-> s, found |-> f,
                            pc |-> IF s \in StatewideScripts THEN "locate" ELSE "call",
                            call |-> 1, raced |-> FALSE, images |-> {},
                            exit_code |-> "running", raised |-> "none"] :
                               s \in AllScripts, f \in BOOLEAN}]
    /\ disk = [f \in AllImages |-> LeftBehind]
    /\ CoreIdle
    /\ LoaderIdle
    /\ CleanIdle
    /\ SpikesIdle
    /\ SeasonIdle
    /\ CorrIdle
    /\ MainIdle
    /\ GapsIdle
    /\ HeaderIdle
    /\ pc = "pair"

pairFrame == <<coreVars, pc, printed, raised, returned, loaderVars, cleanVars,
               spikeVars, seasonVars, corrVars, mainVars, gapsVars, headerVars>>

Run(r) == procs[r]
CurStep(r) == Steps(Run(r).script)[Run(r).call]
InBody(r) == pc = "pair" /\ Run(r).pc = "body"
\* both processes inside the same function of the same script
SameBody(r) ==
    /\ Run(Other(r)).pc = "body"
    /\ Run(Other(r)).script = Run(r).script
    /\ Run(Other(r)).call = Run(r).call

\* the three Statewide mains up to the loader, as LocateDataset
PairLocate_NoExit(r) ==
    /\ pc = "pair"
    /\ Run(r).pc = "locate"
    /\ procs' = [procs EXCEPT ![r].pc = "call"]
    /\ UNCHANGED <<pairFrame, disk>>

PairLocate(r) ==
    /\ pc = "pair"
    /\ Run(r).pc = "locate"
    /\ IF Run(r).found
       THEN procs' = [procs EXCEPT ![r].pc = "call"]
       ELSE IF Run(r).script = "colab"
       THEN \E env \in {"not_colab", "nothing_uploaded", "uploaded"} :
                IF env = "uploaded"
                THEN procs' = [procs EXCEPT ![r].pc = "call", ![r].found = TRUE]
                ELSE procs' = [procs EXCEPT ![r].pc = "exited", ![r].exit_code = "1"]
       ELSE procs' = [procs EXCEPT ![r].pc = "exited", ![r].exit_code = "1"]
    /\ UNCHANGED <<pairFrame, disk>>

AtCall(r) ==
    /\ pc = "pair"
    /\ Run(r).pc = "call"
    /\ Run(r).call <= Len(Steps(Run(r).script))

\* a function whose input file does not exist prints and returns
PairCallMissing(r) ==
    /\ AtCall(r)
    /\ ~Run(r).found
    /\ procs' = [procs EXCEPT ![r].call = @ + 1]
    /\ UNCHANGED <<pairFrame, disk>>

\* the function is entered; the other process may be inside it too
PairCallBegin(r) ==
    /\ AtCall(r)
    /\ Run(r).found
    /\ procs' = [procs EXCEPT ![r].pc = "body",
                              ![r].raced = SameBody(r),
                              ![Other(r)].raced = @ \/ SameBody(r)]
    /\ UNCHANGED <<pairFrame, disk>>

Saved_KeepExisting(r, saved) == {disk}

\* the files after run r has saved the images in saved: each holds r's bytes,
\* unless the other process saved the same path while both were inside the
\* function; then either of the two wrote last, or the writes overlapped and
\* the bytes are mixed
Saved(r, saved) ==
    LET contested == {f \in saved : Run(r).raced /\ f \in Run(Other(r)).images}
    IN  {[f \in AllImages |->
            IF f \notin saved THEN disk[f]
            ELSE IF f \in contested THEN bytes[f] ELSE {r}] :
                bytes \in [contested -> {{r}, {Other(r)}, Runs}]}

\* the function runs to its end, every image saved
PairCallOk(r) ==
    /\ InBody(r)
    /\ LET saved == Range(CurStep(r).images) IN
           /\ disk' \in Saved(r, saved)
           /\ procs' = [procs EXCEPT ![r].pc = "call", ![r].call = @ + 1,
                                     ![r].images = @ \cup saved]
    /\ UNCHANGED pairFrame

\* a failure inside the function's try, as CallCaught
PairCallCaught(r) ==
    /\ InBody(r)
    /\ CurStep(r).try \in {"all", "part"}
    /\ \E k \in 0..Len(CurStep(r).images) :
           LET saved == Range(SubSeq(CurStep(r).images, 1, k)) IN
               /\ disk' \in Saved(r, saved)
               /\ procs' = [procs EXCEPT
                              ![r].pc = IF CurStep(r).fn = "load_and_clean_data"
                                        THEN "skip" ELSE "call",
                              ![r].call = @ + 1,
                              ![r].images = @ \cup saved]
    /\ UNCHANGED pairFrame

\* a failure outside any try, as CallRaised
PairCallRaised(r) ==
    /\ InBody(r)
    /\ CurStep(r).try \in {"part", "none"}
    /\ \E k \in 0..Len(CurStep(r).images) :
           LET saved == Range(SubSeq(CurStep(r).images, 1, k)) IN
               /\ disk' \in Saved(r, saved)
               /\ procs' = [procs EXCEPT ![r].pc = "exited", ![r].exit_code = "1",
                                         ![r].raised = CurStep(r).fn,
                                         ![r].images = @ \cup saved]
    /\ UNCHANGED pairFrame

\* the end of main, as Finish
PairFinish(r) ==
    /\ pc = "pair"
    /\ \/ Run(r).pc = "skip"
       \/ Run(r).pc = "call" /\ Run(r).call > Len(Steps(Run(r).script))
    /\ procs' = [procs EXCEPT ![r].pc = "exited", ![r].exit_code = "0"]
    /\ UNCHANGED <<pairFrame, disk>>

NextPair ==
    \E r \in Runs :
        \/ PairLocate(r)
        \/ PairCallMissing(r)
        \/ PairCallBegin(r)
        \/ PairCallOk(r)
        \/ PairCallCaught(r)
        \/ PairCallRaised(r)
        \/ PairFinish(r)

SpecPair == InitPair /\ [][NextPair]_vars

Exited(r) == Run(r).pc = "exited"
SavedBy(f) == {r \in Runs : f \in Run(r).images}

\* C27 as stated: image files have fixed paths, no locking, no unique names,
\* and two concurrent script runs, whichever scripts they are, can overwrite
\* each other's image files. Two runs that both end normally with every image
\* saved then have at least one path that both of them saved.
C27_AnyTwoRunsOverwrite ==
    (\A r \in Runs : /\ Exited(r)
                     /\ Run(r).exit_code = "0"
                     /\ Run(r).images = ImagesOfScript(Run(r).script)
                     /\ Run(r).images # {})
        => \E f \in AllImages : SavedBy(f) = Runs

\* C27, amended: a saved image replaces the file of that name, whoever wrote
\* it; a path saved by one run only holds that run's bytes; a path saved by
\* both runs holds the bytes of one of them or, when the two were inside the
\* function together, possibly a mixture; and only two runs of the same script
\* ever save the same path, since no two scripts share an image name.
C27_SameScriptOverwrites ==
    /\ \A r \in Runs : Run(r).images \subseteq ImagesOfScript(Run(r).script)
    /\ Run(1).images \cap Run(2).images # {} => Run(1).script = Run(2).script
    /\ \A f \in AllImages :
           /\ disk[f] \subseteq SavedBy(f)
           /\ disk[f] = LeftBehind <=> SavedBy(f) = {}

\* two finished runs of contra_costa_analysis.py, every image saved by both:
\* one file holds run 1's bytes, another run 2's, a third is mixed
C27_Witness ==
    /\ \A r \in Runs : /\ Exited(r)
                       /\ Run(r).script = "contra_costa"
                       /\ Run(r).images = ImagesOfScript("contra_costa")
    /\ disk["food_desert_ranking.png"] = {1}
    /\ disk["food_deserts_matrix.png"] = {2}
    /\ disk["seasonal_pulse.png"] = Runs
    /\ disk["cost_of_hunger.png"] = {1}

\* a run ended by sys.exit(1), no exception involved
ExplicitExit(r) ==
    /\ Exited(r)
    /\ Run(r).exit_code = "1"
    /\ Run(r).raised = "none"
RanToCompletion(r) ==
    /\ Exited(r)
    /\ Run(r).raised = "none"
    /\ Run(r).found

\* C22 as stated: a script whose input is located and that runs to completion
\* exits with 0; a non-zero exit is always the explicit exit taken when the
\* input file cannot be located; and one script only has that explicit exit,
\* so two runs that both end by it are runs of the same script.
C22_OneExplicitExit ==
    /\ \A r \in Runs : RanToCompletion(r) => Run(r).exit_code = "0"
    /\ \A r \in Runs : Exited(r) /\ Run(r).exit_code # "0"
                          => ExplicitExit(r) /\ ~Run(r).found
    /\ ExplicitExit(1) /\ ExplicitExit(2) => Run(1).script = Run(2).script

\* C22, amended: a run that reaches the end of its script exits with 0,
\* whether or not its input files exist; status 1 comes either from the
\* explicit exit of the three Statewide scripts, taken before any function is
\* called when none of the dataset's file names exists (and, in
\* google_colab_script.py, nothing is uploaded), or from an exception raised
\* outside every try of a function whose input exists.
C22_ExitCodes ==
    \A r \in Runs :
        /\ Exited(r) => Run(r).exit_code \in {"0", "1"}
        /\ RanToCompletion(r) => Run(r).exit_code = "0"
        /\ Exited(r) /\ Run(r).exit_code = "1"
              => \/ /\ ExplicitExit(r)
                    /\ Run(r).script \in StatewideScripts
                    /\ ~Run(r).found
                    /\ Run(r).call = 1
                    /\ Run(r).images = {}
                 \/ /\ Run(r).raised = CurStep(r).fn
                    /\ CurStep(r).try \in {"part", "none"}
                    /\ Run(r).found
        /\ Run(r).script \in StatewideScripts /\ ~Run(r).found /\ Run(r).pc # "locate"
              => ExplicitExit(r)
        /\ Run(r).script \in FileScripts /\ ~Run(r).found /\ Exited(r)
              => Run(r).exit_code = "0" /\ Run(r).images = {}

\* food_bank_analysis.py and google_colab_script.py both ended by sys.exit(1)
C22_Witness ==
    /\ ExplicitExit(1)
    /\ ExplicitExit(2)
    /\ Run(1).script = "food_bank"
    /\ Run(2).script = "colab"

====
